---- MODULE Spec2Model ----
(***************************************************************************)
(* Device Monitor card: the entity classification, state evaluation and    *)
(* device aggregation pipeline (ENTITY_TYPES, registryHelpers and          *)
(* collectDevices of device-monitor-card.js, as listed in                  *)
(* features/exclusion-filters-plan.md).                                    *)
(*                                                                         *)
(* Conventions of the model                                                *)
(*  - JavaScript strings are TLA+ strings; startsWith, endsWith, includes  *)
(*    and replace are computed character by character.                     *)
(*  - A missing value (undefined or null) of a string-valued field is the  *)
(*    empty string "": every place of the code that reads such a field     *)
(*    tests it for truthiness or compares it with a non-empty literal, and *)
(*    "", null and undefined behave alike there.                           *)
(*  - A JavaScript number is an integer count of tenths (one decimal       *)
(*    digit): 19.9 is 199 and 20 is 200.  An optional number (a number or  *)
(*    null / NaN) is the tuple <<n>> or the empty tuple <<>>.  The same    *)
(*    holds of an optional object: <<o>> or <<>> (undefined).              *)
(*  - A registry of the host that is undefined is the empty map: every     *)
(*    read of hass.entities, hass.devices, hass.areas and hass.floors is   *)
(*    behind a guard (!hass.entities, ?.) that answers as for a missing    *)
(*    key.                                                                 *)
(*  - A TypeError (a property read of undefined) ends the call: the        *)
(*    process is then at "thrown".                                         *)
(***************************************************************************)
EXTENDS Integers, Sequences, FiniteSets, TLC

\* One call of collectDevices: its arguments, its locals and what it returns.
VARIABLES hass, config, options, pc, idx, batteryLowBinarySensors, devices, result

\* One card or badge element of the dashboard: the argument of setConfig, the
\* edit parameter of the page's URL, the script engine's Array.prototype.sort,
\* the lists of _getDevices as they are folded, grouped and sorted, and the
\* content of the element's shadow root.
VARIABLES element, userConfig, location, engine, alerts, normals, grouped, sorted,
          shadowRoot

collectVars == <<hass, config, options, pc, idx, batteryLowBinarySensors, devices, result>>

widgetVars ==
  <<element, userConfig, location, engine, alerts, normals, grouped, sorted, shadowRoot>>

\* The card's _expanded flag and the device list it displays.
VARIABLES expanded, display

displayVars == <<expanded, display>>

\* The calls of collectDevices that have returned, oldest first.
VARIABLES history

\* The card editor: its _config, the config its pending debounce timer will
\* dispatch (<<>> when no timer is pending), the config of the host (the detail
\* of the last config-changed event it received, or the config it started
\* with), the detail of the last event, the last value the user gave to each
\* field, and the number of edits made.
VARIABLES editorConfig, debounceTimeout, hostConfig, lastEvent, edited, edits

editorVars == <<editorConfig, debounceTimeout, hostConfig, lastEvent, edited, edits>>

\* The LocalizationHelper singleton: its translations (<<>> for a language
\* without an entry), the state of its load promise for each language, the
\* number of fetches in flight for each language, its currentLanguage, the
\* number of callers waiting on the load promise of each language, the queue
\* of microtasks of the page, and how the last load promise of each language
\* has settled.
VARIABLES translations, loadPromises, inFlight, currentLanguage, waiting, microtasks
VARIABLES settlement

loaderVars ==
  <<translations, loadPromises, inFlight, currentLanguage, waiting, microtasks, settlement>>

\* The card behind the language promise: its _hass (<<>> before the first
\* snapshot), _config and _expanded, what its shadow root shows (<<>> for the
\* "Loading..." placeholder) and the number of calls the host and the user
\* have made.
VARIABLES cardHass, cardConfig, cardExpanded, cardContent, updates

cardVars == <<cardHass, cardConfig, cardExpanded, cardContent, updates>>

\* The badge and the pointer over it: the normalized tap_action and
\* hold_action of its _config, the holdTimeout and holdTriggered of the
\* closure of the badge element now in the shadow root, the timers that are
\* pending (each with the press that set it and the element it belongs to),
\* the number of the element, where the pointer is, the number of presses
\* started and of key presses, the number of presses whose 500 ms have passed,
\* the presses still held at that instant, the presses whose click was
\* dispatched, whether the element was replaced during the press, and the
\* calls of _handleAction with what they did.
VARIABLES badgeConfig, holdTimeout, holdTriggered, timers, generation
VARIABLES pointer, presses, keyPresses, elapsed, heldLong, clicked, replaced, handled

pressVars ==
  <<badgeConfig, holdTimeout, holdTriggered, timers, generation,
    pointer, presses, keyPresses, elapsed, heldLong, clicked, replaced, handled>>

asyncVars == <<editorVars, loaderVars, cardVars, pressVars>>

otherVars == <<history, asyncVars>>

vars == <<collectVars, widgetVars, displayVars, otherVars>>

(***************************************************************************)
(* Bounds of the model.                                                    *)
(***************************************************************************)
\* Largest number of entities in one host snapshot (hass.states).
MaxEntities == 3

\* Largest number of calls of collectDevices in a row.
MaxCalls == 3

\* Largest number of edits the user makes in the card editor.
MaxEdits == 3

\* Largest number of presses of the pointer on the badge, and of key presses.
MaxPresses == 2

\* Largest number of times the badge is rendered again.
MaxRenders == 2

\* Largest number of hass updates, setConfig calls and expand toggles on the
\* card that waits for its language.
MaxUpdates == 3

(***************************************************************************)
(* String primitives of the language runtime.                              *)
(***************************************************************************)
StartsWith(s, p) == Len(s) >= Len(p) /\ SubSeq(s, 1, Len(p)) = p

EndsWith(s, p) == Len(s) >= Len(p) /\ SubSeq(s, Len(s) - Len(p) + 1, Len(s)) = p

\* Index of the first occurrence of p in s, 0 when there is none.
IndexOf(s, p) ==
  LET hits == {i \in 1..(Len(s) - Len(p) + 1) : SubSeq(s, i, i + Len(p) - 1) = p}
  IN IF hits = {} THEN 0 ELSE CHOOSE i \in hits : \A j \in hits : i <= j

Includes(s, p) == IndexOf(s, p) # 0

\* String.prototype.replace with a string pattern: the first occurrence only.
Replace(s, p, r) ==
  LET i == IndexOf(s, p)
  IN IF i = 0 THEN s
     ELSE SubSeq(s, 1, i - 1) \o r \o SubSeq(s, i + Len(p), Len(s))

CharAt(s, i) == IF i >= 1 /\ i <= Len(s) THEN SubSeq(s, i, i) ELSE ""

IsDigit(c) == c \in {"0", "1", "2", "3", "4", "5", "6", "7", "8", "9"}

DigitVal(c) ==
  CASE c = "0" -> 0 [] c = "1" -> 1 [] c = "2" -> 2 [] c = "3" -> 3 [] c = "4" -> 4
    [] c = "5" -> 5 [] c = "6" -> 6 [] c = "7" -> 7 [] c = "8" -> 8 [] c = "9" -> 9

DigitChar(d) ==
  CASE d = 0 -> "0" [] d = 1 -> "1" [] d = 2 -> "2" [] d = 3 -> "3" [] d = 4 -> "4"
    [] d = 5 -> "5" [] d = 6 -> "6" [] d = 7 -> "7" [] d = 8 -> "8" [] d = 9 -> "9"

\* Number of consecutive decimal digits of s from index i on.
RECURSIVE DigitRun(_, _)
DigitRun(s, i) == IF IsDigit(CharAt(s, i)) THEN 1 + DigitRun(s, i + 1) ELSE 0

\* Value of the decimal digits s[i .. i+n-1].
RECURSIVE DigitsValue(_, _, _)
DigitsValue(s, i, n) ==
  IF n = 0 THEN 0
  ELSE 10 * DigitsValue(s, i, n - 1) + DigitVal(CharAt(s, i + n - 1))

\* parseFloat: an optional sign, digits, an optional fraction; the longest such
\* prefix of s is converted and what follows it is ignored; <<>> is NaN.  The
\* result is in tenths: the first digit of the fraction is kept.
ParseFloat(s) ==
  LET signLen == IF CharAt(s, 1) \in {"-", "+"} THEN 1 ELSE 0
      intLen  == DigitRun(s, signLen + 1)
      hasDot  == CharAt(s, signLen + intLen + 1) = "."
      fracLen == IF hasDot THEN DigitRun(s, signLen + intLen + 2) ELSE 0
      intVal  == DigitsValue(s, signLen + 1, intLen)
      tenth   == IF fracLen > 0 THEN DigitVal(CharAt(s, signLen + intLen + 2)) ELSE 0
      mag     == 10 * intVal + tenth
  IN IF intLen = 0 /\ fracLen = 0 THEN <<>>
     ELSE IF CharAt(s, 1) = "-" THEN <<0 - mag>> ELSE <<mag>>

RECURSIVE NatToString(_)
NatToString(n) ==
  IF n < 10 THEN DigitChar(n) ELSE NatToString(n \div 10) \o DigitChar(n % 10)

\* Number-to-string conversion of a template literal, for a number in tenths.
NumberToString(t) ==
  LET mag == IF t < 0 THEN 0 - t ELSE t
      txt == NatToString(mag \div 10) \o
             (IF mag % 10 = 0 THEN "" ELSE "." \o DigitChar(mag % 10))
  IN IF t < 0 THEN "-" \o txt ELSE txt

\* The number n of the source text, in tenths.
Num(n) == 10 * n

NaN == <<>>
IsNaN(x) == x = <<>>

\* -1, 0 or 1 as the sequence of numbers ra comes before, with or after rb in
\* the lexicographic order (a proper prefix comes first).
RECURSIVE LexCompare(_, _)
LexCompare(ra, rb) ==
  IF ra = <<>> /\ rb = <<>> THEN 0
  ELSE IF ra = <<>> THEN 0 - 1
  ELSE IF rb = <<>> THEN 1
  ELSE IF ra[1] < rb[1] THEN 0 - 1
  ELSE IF ra[1] > rb[1] THEN 1
  ELSE LexCompare(Tail(ra), Tail(rb))

\* The characters of the model's strings in the order of their UTF-16 code
\* units.
CodeUnits ==
  " ./0123456789ABCDEFGHIJKLMNOPQRSTUVWXYZ_abcdefghijklmnopqrstuvwxyz"

\* The comparison of the default Array.prototype.sort: strings by code units.
CodeUnitCompare(a, b) ==
  LexCompare([i \in 1..Len(a) |-> IndexOf(CodeUnits, CharAt(a, i))],
             [i \in 1..Len(b) |-> IndexOf(CodeUnits, CharAt(b, i))])

UpperCase == "ABCDEFGHIJKLMNOPQRSTUVWXYZ"
LowerCase == "abcdefghijklmnopqrstuvwxyz"

IsUpper(c) == IndexOf(UpperCase, c) # 0

ToLower(c) == IF IsUpper(c) THEN CharAt(LowerCase, IndexOf(UpperCase, c)) ELSE c

\* The characters in the order of the primary weights of the collation: the
\* space, punctuation, digits, letters without their case.
Collation == " _./0123456789abcdefghijklmnopqrstuvwxyz"

\* String.prototype.localeCompare: -1, 0 or 1.  The primary weights of the two
\* strings decide; when they are equal the case decides, lower case first.
LocaleCompare(a, b) ==
  LET primary ==
        LexCompare([i \in 1..Len(a) |-> IndexOf(Collation, ToLower(CharAt(a, i)))],
                   [i \in 1..Len(b) |-> IndexOf(Collation, ToLower(CharAt(b, i)))])
      tertiary ==
        LexCompare([i \in 1..Len(a) |-> IF IsUpper(CharAt(a, i)) THEN 1 ELSE 0],
                   [i \in 1..Len(b) |-> IF IsUpper(CharAt(b, i)) THEN 1 ELSE 0])
  IN IF primary # 0 THEN primary ELSE tertiary

(***************************************************************************)
(* registryHelpers: read-only lookups in the host's registries.            *)
(***************************************************************************)
GetAreaId(h, deviceId) ==
  IF deviceId \in DOMAIN h.devices THEN h.devices[deviceId].area_id ELSE ""

GetAreaName(h, areaId) ==
  IF areaId \in DOMAIN h.areas THEN h.areas[areaId].name ELSE ""

GetFloorId(h, areaId) ==
  IF areaId \in DOMAIN h.areas THEN h.areas[areaId].floor_id ELSE ""

GetFloorName(h, floorId) ==
  IF floorId \in DOMAIN h.floors THEN h.floors[floorId].name ELSE ""

IsEntityHidden(h, entityId) ==
  entityId \in DOMAIN h.entities /\ h.entities[entityId].hidden = TRUE

IsGroupEntity_NoSensor(entityId) ==
  StartsWith(entityId, "light.") \/ StartsWith(entityId, "contact.")

IsGroupEntity(entityId) ==
  \/ StartsWith(entityId, "light.")
  \/ StartsWith(entityId, "contact.")
  \/ StartsWith(entityId, "sensor.")

GetDeviceId(h, entityId) ==
  IF entityId \in DOMAIN h.entities THEN h.entities[entityId].device_id ELSE ""

\* A device that is missing, named by its id (a plausible slip of getDeviceName).
GetDeviceName_NoMissingCheck(h, deviceId) ==
  IF deviceId \notin DOMAIN h.devices THEN deviceId
  ELSE IF h.devices[deviceId].name_by_user # "" THEN h.devices[deviceId].name_by_user
  ELSE IF h.devices[deviceId].name # "" THEN h.devices[deviceId].name
  ELSE deviceId

GetDeviceName(h, deviceId) ==
  IF deviceId \notin DOMAIN h.devices THEN ""
  ELSE IF h.devices[deviceId].name_by_user # "" THEN h.devices[deviceId].name_by_user
  ELSE IF h.devices[deviceId].name # "" THEN h.devices[deviceId].name
  ELSE deviceId

\* hass.formatEntityState: the host's localized text of an entity's state.
FormatEntityState(stateObj) == "~" \o stateObj.state

(***************************************************************************)
(* ENTITY_TYPES: one strategy per monitored category.                      *)
(***************************************************************************)
ENTITY_TYPES == {"battery", "contact", "light"}

excludedSuffixes == {"_state", "_charging", "_charger", "_power", "_health"}

\* device_class tested before the excluded suffixes (a plausible reordering).
BatteryDetect_ClassFirst(entityId, attributes) ==
  \/ attributes.device_class = "battery"
  \/ /\ ~(\E suffix \in excludedSuffixes : EndsWith(entityId, suffix))
     /\ Includes(entityId, "battery")
     /\ (StartsWith(entityId, "sensor.") \/ StartsWith(entityId, "binary_sensor."))
     /\ attributes.device_class # "power"
     /\ attributes.device_class # "energy"

BatteryDetect(entityId, attributes) ==
  LET isExcludedEntity == \E suffix \in excludedSuffixes : EndsWith(entityId, suffix)
  IN IF isExcludedEntity THEN FALSE
     ELSE \/ attributes.device_class = "battery"
          \/ /\ Includes(entityId, "battery")
             /\ (StartsWith(entityId, "sensor.") \/ StartsWith(entityId, "binary_sensor."))
             /\ attributes.device_class # "power"
             /\ attributes.device_class # "energy"

\* config.battery_threshold || 20: undefined and 0 are both falsy.
BatteryThreshold(cfg) ==
  IF cfg.battery_threshold = <<>> \/ cfg.battery_threshold = <<0>>
  THEN Num(20)
  ELSE cfg.battery_threshold[1]

StrValue(s) == [num |-> <<>>, str |-> s]
NumValue(n) == [num |-> <<n>>, str |-> ""]

BatteryEvaluateState(entity, cfg) ==
  LET threshold == BatteryThreshold(cfg)
      entityId == entity.entity_id
      batteryLevel == ParseFloat(entity.state)
  IN IF Includes(entityId, "_battery_low") /\ StartsWith(entityId, "binary_sensor.")
     THEN [value |-> StrValue(IF entity.state = "on" THEN "low" ELSE "ok"),
           displayValue |-> FormatEntityState(entity),
           isAlert |-> entity.state = "on",
           numericValue |-> <<>>]
     ELSE IF ~IsNaN(batteryLevel)
     THEN [value |-> NumValue(batteryLevel[1]),
           displayValue |-> NumberToString(batteryLevel[1]) \o "%",
           isAlert |-> batteryLevel[1] < threshold,
           numericValue |-> batteryLevel]
     ELSE [value |-> StrValue(entity.state),
           displayValue |-> entity.state,
           isAlert |-> entity.state = "low" \/ entity.state = "Low",
           numericValue |-> <<>>]

\* ENTITY_TYPES.battery.getIcon (lines 2732-2749)
BatteryGetIcon(state) ==
  IF state.value = StrValue("low") THEN "mdi:battery-alert"
  ELSE IF state.value = StrValue("ok") THEN "mdi:battery"
  ELSE IF state.numericValue = <<>> THEN "mdi:battery-unknown"
  ELSE LET level == state.numericValue[1]
       IN IF level >= Num(95) THEN "mdi:battery"
          ELSE IF level >= Num(85) THEN "mdi:battery-90"
          ELSE IF level >= Num(75) THEN "mdi:battery-80"
          ELSE IF level >= Num(65) THEN "mdi:battery-70"
          ELSE IF level >= Num(55) THEN "mdi:battery-60"
          ELSE IF level >= Num(45) THEN "mdi:battery-50"
          ELSE IF level >= Num(35) THEN "mdi:battery-40"
          ELSE IF level >= Num(25) THEN "mdi:battery-30"
          ELSE IF level >= Num(15) THEN "mdi:battery-20"
          ELSE IF level >= Num(5) THEN "mdi:battery-10"
          ELSE "mdi:battery-alert"

\* Every level below the threshold of 20 in red.
BatteryGetColor_RedBelow20(state) ==
  IF state.isUnavailable THEN "var(--disabled-text-color, #9e9e9e)"
  ELSE IF state.value = StrValue("low") THEN "#ff0000"
  ELSE IF state.value = StrValue("ok") THEN "#44739e"
  ELSE IF state.numericValue = <<>> THEN "#ffa500"
  ELSE IF state.numericValue[1] < Num(20) THEN "#ff0000"
  ELSE "#44739e"

\* ENTITY_TYPES.battery.getColor (lines 2752-2762)
BatteryGetColor(state) ==
  IF state.isUnavailable THEN "var(--disabled-text-color, #9e9e9e)"
  ELSE IF state.value = StrValue("low") THEN "#ff0000"
  ELSE IF state.value = StrValue("ok") THEN "#44739e"
  ELSE IF state.numericValue = <<>> THEN "#ffa500"
  ELSE LET level == state.numericValue[1]
       IN IF level < Num(10) THEN "#ff0000"
          ELSE IF level < Num(20) THEN "#ffa500"
          ELSE "#44739e"

ContactDetect(entityId, attributes) ==
  LET deviceClass == attributes.device_class
      isContactSensor ==
        /\ StartsWith(entityId, "binary_sensor.")
        /\ deviceClass \in {"door", "window", "garage_door", "lock", "opening"}
      isLock == StartsWith(entityId, "lock.")
  IN isContactSensor \/ isLock

openStates == {"on", "open", "opening", "unlocked", "unlocking", "jammed"}

\* The open states of a lock without "jammed".
ContactIsOpen_NoJammed(isLock, state) ==
  IF isLock THEN state \in (openStates \ {"jammed"}) ELSE state = "on"

ContactIsOpen(isLock, state) ==
  IF isLock THEN state \in openStates ELSE state = "on"

ContactEvaluateState(entity, cfg) ==
  LET isLock == StartsWith(entity.entity_id, "lock.")
      isOpen == ContactIsOpen(isLock, entity.state)
  IN [value |-> StrValue(entity.state),
      displayValue |-> FormatEntityState(entity),
      isAlert |-> isOpen,
      numericValue |-> <<>>]

LightDetect(entityId, attributes) == StartsWith(entityId, "light.")

\* Every state but "off" taken for a light that is on.
LightEvaluateState_OnUnlessOff(entity, cfg) ==
  LET isOn == entity.state # "off"
  IN [value |-> StrValue(entity.state),
      displayValue |-> FormatEntityState(entity),
      isAlert |-> isOn,
      numericValue |-> <<>>]

LightEvaluateState(entity, cfg) ==
  LET isOn == entity.state = "on"
  IN [value |-> StrValue(entity.state),
      displayValue |-> FormatEntityState(entity),
      isAlert |-> isOn,
      numericValue |-> <<>>]

\* strategy.detect and strategy.evaluateState of ENTITY_TYPES[entityType].
Detect(entityType, entityId, attributes) ==
  CASE entityType = "battery" -> BatteryDetect(entityId, attributes)
    [] entityType = "contact" -> ContactDetect(entityId, attributes)
    [] entityType = "light"   -> LightDetect(entityId, attributes)

EvaluateState(entityType, entity, cfg) ==
  CASE entityType = "battery" -> BatteryEvaluateState(entity, cfg)
    [] entityType = "contact" -> ContactEvaluateState(entity, cfg)
    [] entityType = "light"   -> LightEvaluateState(entity, cfg)

(***************************************************************************)
(* collectDevices                                                          *)
(***************************************************************************)
\* The attributes of {}: every field reads as undefined.
NoAttributes == [device_class |-> "", friendly_name |-> ""]

\* entity.attributes read as it is (no default for an entity without them).
Attributes_Unguarded(entity) == entity.attributes

\* const attributes = entity?.attributes || {}
Attributes(entity) ==
  IF entity.attributes = <<>> THEN <<NoAttributes>> ELSE entity.attributes

EmptyResult ==
  [alertDevices |-> <<>>, normalDevices |-> <<>>, unavailableDevices |-> <<>>,
   allDevices |-> <<>>, totalDevices |-> 0]

\* const entityType = config.entity_type || 'battery'
EntityType(cfg) == IF cfg.entity_type = "" THEN "battery" ELSE cfg.entity_type

\* Object.keys(hass.states), in the order of the host's object.
Keys(h) == [i \in 1..Len(h.states) |-> h.states[i].entity_id]

\* No duplicate suppression at all (the pre-pass left out).
BatteryLowSiblings_None(h, entityType) == {}

\* The pre-pass: the sensor.X_battery ids that have a binary_sensor.X_battery_low.
BatteryLowSiblings(h, entityType) ==
  IF entityType = "battery"
  THEN {Replace(Replace(Keys(h)[i], "binary_sensor.", "sensor."), "_battery_low", "_battery") :
          i \in {j \in 1..Len(h.states) :
                   /\ Includes(Keys(h)[j], "_battery_low")
                   /\ StartsWith(Keys(h)[j], "binary_sensor.")}}
  ELSE {}

\* One key for every entity type (the device id).
StorageKey_AlwaysDevice(entityType, deviceId, entityId) == deviceId

StorageKey(entityType, deviceId, entityId) ==
  IF entityType = "battery" THEN deviceId ELSE entityId

\* First entity wins, whatever its reading.
ShouldUpdate_FirstWins(entityType, existing, stateInfo) == existing = <<>>

\* existing: <<>> when the key has no record yet, else <<record>>.
ShouldUpdate(entityType, existing, stateInfo) ==
  \/ existing = <<>>
  \/ /\ entityType = "battery"
     /\ stateInfo.numericValue # <<>>
     /\ existing[1].stateInfo.numericValue = <<>>

\* Lines 2585-2611: the logical device of an entity; ok = FALSE is the early return.
ResolveDevice(h, opts, entity) ==
  LET entityId == entity.entity_id
      deviceId == GetDeviceId(h, entityId)
      deviceName == GetDeviceName(h, deviceId)
      areaId == GetAreaId(h, deviceId)
      entityArea == IF entityId \in DOMAIN h.entities THEN h.entities[entityId].area_id ELSE ""
  IN IF deviceId # ""
     THEN [ok |-> deviceName # "", deviceId |-> deviceId, deviceName |-> deviceName,
           areaId |-> IF opts.includeArea THEN areaId ELSE "",
           areaName |-> IF opts.includeArea /\ areaId # "" THEN GetAreaName(h, areaId) ELSE ""]
     ELSE IF IsGroupEntity(entityId)
     THEN [ok |-> TRUE, deviceId |-> entityId,
           deviceName |-> IF Attributes(entity)[1].friendly_name # ""
                          THEN Attributes(entity)[1].friendly_name ELSE entityId,
           areaId |-> IF opts.includeArea THEN entityArea ELSE "",
           areaName |-> IF opts.includeArea /\ entityArea # ""
                        THEN GetAreaName(h, entityArea) ELSE ""]
     ELSE [ok |-> FALSE, deviceId |-> "", deviceName |-> "", areaId |-> "", areaName |-> ""]

\* Position of the record stored under key in devs, 0 when there is none.
KeyIndex(devs, key) ==
  IF \E i \in 1..Len(devs) : devs[i].storageKey = key
  THEN CHOOSE i \in 1..Len(devs) : devs[i].storageKey = key
  ELSE 0

\* The body of the main forEach (lines 2561-2649) for one entity: the devices
\* object after it.  devs lists the records in the insertion order of their keys.
VisitEntity(devs, h, cfg, opts, lowSet, entity) ==
  LET entityType == EntityType(cfg)
      entityId == entity.entity_id
      attributes == Attributes(entity)[1]
      dev == ResolveDevice(h, opts, entity)
      stateInfo ==
        [isUnavailable |-> entity.state = "unavailable"] @@ EvaluateState(entityType, entity, cfg)
      storageKey == StorageKey(entityType, dev.deviceId, entityId)
      at == KeyIndex(devs, storageKey)
      existing == IF at = 0 THEN <<>> ELSE <<devs[at]>>
      record ==
        [storageKey |-> storageKey, deviceId |-> dev.deviceId, deviceName |-> dev.deviceName,
         entityName |-> IF attributes.friendly_name # "" THEN attributes.friendly_name
                        ELSE entityId,
         entityId |-> entityId, stateInfo |-> stateInfo,
         lastChanged |-> entity.last_changed, attributes |-> attributes,
         areaId |-> dev.areaId, areaName |-> dev.areaName]
  IN IF ~Detect(entityType, entityId, attributes) THEN devs
     ELSE IF IsEntityHidden(h, entityId) THEN devs
     ELSE IF entityType = "battery" /\ entityId \in lowSet THEN devs
     ELSE IF ~dev.ok THEN devs
     ELSE IF ~ShouldUpdate(entityType, existing, stateInfo) THEN devs
     ELSE IF at = 0 THEN Append(devs, record)
     ELSE [devs EXCEPT ![at] = record]

\* The body of the main forEach reads a property of an undefined attributes
\* object: attributes.device_class in the detect of the battery strategy (after
\* the excluded suffixes, line 2687) and of the contact strategy (line 2783),
\* attributes.friendly_name at lines 2601 and 2613 for an entity that is
\* detected, visible and resolved to a device.
VisitThrows(h, cfg, entity) ==
  LET entityType == EntityType(cfg)
      entityId == entity.entity_id
      deviceId == GetDeviceId(h, entityId)
      detectReads ==
        CASE entityType = "battery" ->
               ~(\E suffix \in excludedSuffixes : EndsWith(entityId, suffix))
          [] entityType = "contact" -> TRUE
          [] entityType = "light" -> FALSE
      resolves ==
        IF deviceId # "" THEN GetDeviceName(h, deviceId) # "" ELSE IsGroupEntity(entityId)
  IN /\ Attributes(entity) = <<>>
     /\ \/ detectReads
        \/ /\ entityType = "light"
           /\ LightDetect(entityId, NoAttributes)
           /\ ~IsEntityHidden(h, entityId)
           /\ resolves

AlertDevices(allDevices) == SelectSeq(allDevices, LAMBDA d : d.stateInfo.isAlert)

\* Unavailable records kept out of the normal bucket.
NormalDevices_SkipUnavailable(allDevices) ==
  SelectSeq(allDevices, LAMBDA d : ~d.stateInfo.isAlert /\ ~d.stateInfo.isUnavailable)

NormalDevices(allDevices) == SelectSeq(allDevices, LAMBDA d : ~d.stateInfo.isAlert)

UnavailableDevices(allDevices) == SelectSeq(allDevices, LAMBDA d : d.stateInfo.isUnavailable)

\* Lines 2651-2670: the returned object.
MakeResult(allDevices) ==
  [alertDevices |-> AlertDevices(allDevices),
   normalDevices |-> NormalDevices(allDevices),
   unavailableDevices |-> UnavailableDevices(allDevices),
   allDevices |-> allDevices,
   totalDevices |-> Len(allDevices)]

\* The devices object after the first n entities of the snapshot.
RECURSIVE VisitFirst(_, _, _, _, _)
VisitFirst(h, cfg, opts, lowSet, n) ==
  IF n = 0 THEN <<>>
  ELSE VisitEntity(VisitFirst(h, cfg, opts, lowSet, n - 1), h, cfg, opts, lowSet, h.states[n])

\* collectDevices as a function of its arguments.
CollectDevices(h, cfg, opts) ==
  IF ~h.defined THEN EmptyResult
  ELSE IF EntityType(cfg) \notin ENTITY_TYPES THEN EmptyResult
  ELSE MakeResult(VisitFirst(h, cfg, opts, BatteryLowSiblings(h, EntityType(cfg)),
                             Len(h.states)))

(***************************************************************************)
(* DeviceMonitorCard and DeviceMonitorBadge: setConfig.                    *)
(*                                                                         *)
(* The argument of setConfig is <<>> (no config) or <<c>>.  c.entity_type  *)
(* is <<>> when the key is absent, <<"">> when it is there with an empty   *)
(* value (null, ''), else <<t>>; the other keys are "" or <<>> when absent *)
(* or empty, which the code does not tell apart.                           *)
(***************************************************************************)
\* const entityType = config.entity_type || 'battery'
RequestedType(c) ==
  IF c.entity_type = <<>> \/ c.entity_type = <<"">> THEN "battery" ELSE c.entity_type[1]

\* setConfig throws: no config, or no strategy for the requested type.
SetConfigThrows(uc) ==
  IF uc = <<>> THEN TRUE ELSE RequestedType(uc[1]) \notin ENTITY_TYPES

DEFAULT_TITLE_FALLBACKS ==
  [t \in ENTITY_TYPES |->
     CASE t = "battery" -> "Low Battery"
       [] t = "contact" -> "Open Doors & Windows"
       [] t = "light" -> "Lights On"]

\* getDefaultTitle before a translation is loaded.
GetDefaultTitle(entityType) ==
  IF entityType \in ENTITY_TYPES THEN DEFAULT_TITLE_FALLBACKS[entityType]
  ELSE "Device Monitor"

\* { entity_type: entityType, ..., ...config }: the spread comes last, so a key
\* of the config replaces the default computed for it; an empty entity_type is
\* stored as it is ("" in the stored config).
StoredEntityType(c) ==
  IF c.entity_type = <<>> THEN RequestedType(c) ELSE c.entity_type[1]

\* this._config of the card (lines 2929-2942) and of the badge (lines
\* 4050-4061), for a config that setConfig accepts.  visibility is the card's
\* card_visibility and the badge's badge_visibility.
StoredConfig(c) ==
  [entity_type |-> StoredEntityType(c),
   battery_threshold |->
     IF c.battery_threshold = <<>> THEN <<Num(20)>> ELSE c.battery_threshold,
   show_unavailable |-> c.show_unavailable,
   title |-> GetDefaultTitle(RequestedType(c)),
   group_by |-> c.group_by,
   sort_by |-> IF c.sort_by = "" THEN "state" ELSE c.sort_by,
   name_source |-> IF c.name_source = "" THEN "device" ELSE c.name_source,
   visibility |-> c.visibility,
   filter |-> IF c.filter = "" THEN "alert" ELSE c.filter,
   collapse |-> c.collapse]

\* this._config = {} of the constructor.
NoConfig ==
  [entity_type |-> "", battery_threshold |-> <<>>, show_unavailable |-> FALSE,
   title |-> "", group_by |-> "", sort_by |-> "", name_source |-> "", visibility |-> "",
   filter |-> "", collapse |-> <<>>]

\* _isInEditMode: ?edit=1 in the URL, or hass.ui.editMode.
IsInEditMode(h, loc) == loc.edit = "1" \/ (h.defined /\ h.ui.editMode)

(***************************************************************************)
(* _getDevices: collectDevices and the folding of the unavailable records. *)
(***************************************************************************)
\* The alerts without the unavailable records (show_unavailable not honoured).
FoldAlerts_NoFold(res, cfg) == res.alertDevices

\* alerts of _getDevices (lines 2975-2986 and 4085-4094).
FoldAlerts(res, cfg) ==
  LET alertIds == {res.alertDevices[i].entityId : i \in 1..Len(res.alertDevices)}
      NotAnAlert(device) == device.entityId \notin alertIds
  IN IF cfg.show_unavailable
     THEN res.alertDevices \o SelectSeq(res.unavailableDevices, NotAnAlert)
     ELSE res.alertDevices

\* normals of the card's _getDevices (lines 2976-2989).
FoldNormals(res, cfg) ==
  LET unavailableIds ==
        {res.unavailableDevices[i].entityId : i \in 1..Len(res.unavailableDevices)}
      Available(d) == d.entityId \notin unavailableIds
  IN IF cfg.show_unavailable
     THEN SelectSeq(res.normalDevices, Available)
     ELSE res.normalDevices

(***************************************************************************)
(* _groupDevices.  A list of the card holds device records and group       *)
(* header markers { isGroupHeader: true, groupName }.                      *)
(***************************************************************************)
GroupHeader(groupName) == [isGroupHeader |-> TRUE, groupName |-> groupName]

\* item.isGroupHeader: undefined on a device record.
IsGroupHeader(item) == "isGroupHeader" \in DOMAIN item

\* groupKey of lines 3017-3025.  The key null of an object is the text "null".
GroupKey(h, groupBy, device) ==
  LET floorId == IF device.areaId # "" THEN GetFloorId(h, device.areaId) ELSE ""
      floorName == GetFloorName(h, floorId)
  IN CASE groupBy = "area" ->
            IF device.areaName # "" THEN device.areaName ELSE "No Area"
       [] groupBy = "floor" ->
            IF floorId = "" THEN "No Floor"
            ELSE IF floorName = "" THEN "null"
            ELSE floorName
       [] OTHER -> "Unknown"

\* The group names from the last to the first (the comparison reversed).
RECURSIVE SortKeys_Descending(_)
SortKeys_Descending(keys) ==
  IF keys = {} THEN <<>>
  ELSE LET first == CHOOSE k \in keys : \A o \in keys : CodeUnitCompare(k, o) >= 0
       IN <<first>> \o SortKeys_Descending(keys \ {first})

\* Object.keys(grouped).sort(): the group names by code units.
RECURSIVE SortKeys(_)
SortKeys(keys) ==
  IF keys = {} THEN <<>>
  ELSE LET first == CHOOSE k \in keys : \A o \in keys : CodeUnitCompare(k, o) <= 0
       IN <<first>> \o SortKeys(keys \ {first})

\* _groupDevices (lines 3007-3041).
GroupDevices(h, cfg, devs) ==
  LET groupBy == cfg.group_by
      KeyOf(device) == GroupKey(h, groupBy, device)
      groupNames == SortKeys({KeyOf(devs[i]) : i \in 1..Len(devs)})
      Group(groupName) ==
        <<GroupHeader(groupName)>>
          \o SelectSeq(devs, LAMBDA device : KeyOf(device) = groupName)
      Flatten[n \in 0..Len(groupNames)] ==
        IF n = 0 THEN <<>> ELSE Flatten[n - 1] \o Group(groupNames[n])
  IN IF groupBy = "" \/ groupBy = "none" THEN devs
     ELSE Flatten[Len(groupNames)]

(***************************************************************************)
(* _sortDevices and _applySorting.                                         *)
(***************************************************************************)
NameOf(useEntityName, device) ==
  IF useEntityName THEN device.entityName ELSE device.deviceName

\* The comparators of _applySorting (lines 3092-3112): negative, zero or
\* positive.  lastChanged is the time of new Date(lastChanged), in seconds.
Compare(sortBy, useEntityName, a, b) ==
  CASE sortBy = "name" ->
         LocaleCompare(NameOf(useEntityName, a), NameOf(useEntityName, b))
    [] sortBy = "last_changed" -> b.lastChanged - a.lastChanged
    [] OTHER ->
         IF a.stateInfo.numericValue # <<>> /\ b.stateInfo.numericValue # <<>>
         THEN a.stateInfo.numericValue[1] - b.stateInfo.numericValue[1]
         ELSE LocaleCompare(NameOf(useEntityName, a), NameOf(useEntityName, b))

\* Array.prototype.sort of an engine that sorts short arrays (fewer than 24
\* elements in SpiderMonkey) by insertion: every element moves left past the
\* elements that compare greater, up to the first that does not.
RECURSIVE InsertionSort(_, _, _)
InsertionSort(list, sortBy, useEntityName) ==
  IF Len(list) <= 1 THEN list
  ELSE LET head == InsertionSort(SubSeq(list, 1, Len(list) - 1), sortBy, useEntityName)
           item == list[Len(list)]
           stops == {j \in 1..Len(head) :
                       Compare(sortBy, useEntityName, head[j], item) <= 0}
           at == IF stops = {} THEN 0 ELSE CHOOSE j \in stops : \A k \in stops : k <= j
       IN SubSeq(head, 1, at) \o <<item>> \o SubSeq(head, at + 1, Len(head))

\* TimSort: the length of the run that starts the list, i the next index to
\* look at.  A descending run is strict, an ascending run is not.
RECURSIVE RunEnd(_, _, _, _, _)
RunEnd(list, i, isDescending, sortBy, useEntityName) ==
  IF i > Len(list) THEN Len(list)
  ELSE LET order == Compare(sortBy, useEntityName, list[i], list[i - 1])
       IN IF (isDescending /\ order >= 0) \/ (~isDescending /\ order < 0) THEN i - 1
          ELSE RunEnd(list, i + 1, isDescending, sortBy, useEntityName)

\* TimSort: the number of elements of the sorted prefix that stay before pivot,
\* by bisection of prefix[left + 1 .. right].
RECURSIVE BinarySearch(_, _, _, _, _, _)
BinarySearch(prefix, pivot, left, right, sortBy, useEntityName) ==
  IF left >= right THEN left
  ELSE LET mid == left + ((right - left) \div 2)
           order == Compare(sortBy, useEntityName, pivot, prefix[mid + 1])
       IN IF order < 0
          THEN BinarySearch(prefix, pivot, left, mid, sortBy, useEntityName)
          ELSE BinarySearch(prefix, pivot, mid + 1, right, sortBy, useEntityName)

\* TimSort: list[1 .. start - 1] is sorted; the elements from start on are
\* inserted one after the other.
RECURSIVE BinaryInsertionSort(_, _, _, _)
BinaryInsertionSort(list, start, sortBy, useEntityName) ==
  IF start > Len(list) THEN list
  ELSE LET prefix == SubSeq(list, 1, start - 1)
           pivot == list[start]
           at == BinarySearch(prefix, pivot, 0, start - 1, sortBy, useEntityName)
       IN BinaryInsertionSort(
            SubSeq(prefix, 1, at) \o <<pivot>> \o SubSeq(prefix, at + 1, start - 1)
              \o SubSeq(list, start + 1, Len(list)),
            start + 1, sortBy, useEntityName)

Reverse(list) == [i \in 1..Len(list) |-> list[Len(list) + 1 - i]]

\* Array.prototype.sort of V8 for an array of fewer than 64 elements: TimSort
\* with one run, the run found at the start of the array (reversed when it
\* descends) extended to the whole array by binary insertion.
TimSort(list, sortBy, useEntityName) ==
  IF Len(list) < 2 THEN list
  ELSE LET isDescending == Compare(sortBy, useEntityName, list[2], list[1]) < 0
           runLength == RunEnd(list, 3, isDescending, sortBy, useEntityName)
           run == SubSeq(list, 1, runLength)
           ascending == IF isDescending THEN Reverse(run) ELSE run
       IN BinaryInsertionSort(ascending \o SubSeq(list, runLength + 1, Len(list)),
                              runLength + 1, sortBy, useEntityName)

\* The script engines of the model.
Engines == {"v8", "spidermonkey"}

\* _applySorting (lines 3088-3116): [...devices].sort(comparator).
ApplySorting(eng, devs, sortBy, useEntityName) ==
  IF eng = "v8" THEN TimSort(devs, sortBy, useEntityName)
  ELSE InsertionSort(devs, sortBy, useEntityName)

\* The walk of lines 3059-3075 over the first n items: the result so far and
\* the devices of the group that is still open.
RECURSIVE WalkGroups(_, _, _, _, _)
WalkGroups(eng, devs, n, sortBy, useEntityName) ==
  IF n = 0 THEN [result |-> <<>>, currentGroup |-> <<>>]
  ELSE LET before == WalkGroups(eng, devs, n - 1, sortBy, useEntityName)
           item == devs[n]
       IN IF IsGroupHeader(item)
          THEN [result |->
                  before.result
                    \o ApplySorting(eng, before.currentGroup, sortBy, useEntityName)
                    \o <<item>>,
                currentGroup |-> <<>>]
          ELSE [result |-> before.result,
                currentGroup |-> Append(before.currentGroup, item)]

\* The last group never added (lines 3077-3080 left out).
SortDevices_LastGroupDropped(eng, cfg, devs) ==
  LET sortBy == IF cfg.sort_by = "" THEN "state" ELSE cfg.sort_by
      useEntityName == cfg.name_source = "entity"
      hasGroupHeaders == \E i \in 1..Len(devs) : IsGroupHeader(devs[i])
  IN IF ~hasGroupHeaders THEN ApplySorting(eng, devs, sortBy, useEntityName)
     ELSE WalkGroups(eng, devs, Len(devs), sortBy, useEntityName).result

\* _sortDevices (lines 3046-3083).
SortDevices(eng, cfg, devs) ==
  LET sortBy == IF cfg.sort_by = "" THEN "state" ELSE cfg.sort_by
      useEntityName == cfg.name_source = "entity"
      hasGroupHeaders == \E i \in 1..Len(devs) : IsGroupHeader(devs[i])
      walked == WalkGroups(eng, devs, Len(devs), sortBy, useEntityName)
  IN IF ~hasGroupHeaders THEN ApplySorting(eng, devs, sortBy, useEntityName)
     ELSE walked.result
            \o ApplySorting(eng, walked.currentGroup, sortBy, useEntityName)

(***************************************************************************)
(* _renderCard and _renderBadge: the counts, the visibility and the title. *)
(* The content of the shadow root is the text of its title, "" when the    *)
(* element is hidden.                                                      *)
(***************************************************************************)
\* The group header markers counted as devices.
CardAlertCount_WithHeaders(alertDevices) == Len(alertDevices)

\* alertDevices.filter(d => !d.isGroupHeader).length (line 3335)
CardAlertCount(alertDevices) ==
  Cardinality({i \in 1..Len(alertDevices) : ~IsGroupHeader(alertDevices[i])})

\* `${title} (${alertCount}/${totalDevices})` (lines 3347 and 4278)
TitleText(title, alertCount, totalDevices) ==
  title \o " (" \o NatToString(alertCount) \o "/" \o NatToString(totalDevices) \o ")"

\* The edit mode of the dashboard ignored.
Hidden_AlsoInEditMode(cfg, alertCount, isInEditMode) ==
  cfg.visibility = "alert" /\ alertCount = 0

\* The visibility test of lines 3340-3341 and 4271-4272.
Hidden(cfg, alertCount, isInEditMode) ==
  cfg.visibility = "alert" /\ alertCount = 0 /\ ~isInEditMode

\* _renderCard reads a property of ENTITY_TYPES[entity_type] (line 3319, the
\* empty message of a type without translation).
RenderCardThrows(cfg) == cfg.entity_type \notin ENTITY_TYPES

\* _renderCard (lines 3314-3347), after _getDevices.
CardContent(cfg, alertDevices, totalDevices, isInEditMode) ==
  LET alertCount == CardAlertCount(alertDevices)
  IN IF Hidden(cfg, alertCount, isInEditMode) THEN ""
     ELSE TitleText(cfg.title, alertCount, totalDevices)

\* _renderBadge reads strategy.getIcon (line 4279) once it is known to show.
RenderBadgeThrows(cfg, alertDevices, isInEditMode) ==
  /\ ~Hidden(cfg, Len(alertDevices), isInEditMode)
  /\ cfg.entity_type \notin ENTITY_TYPES

\* _renderBadge (lines 4264-4278), after _getDevices.
BadgeContent(cfg, alertDevices, totalDevices, isInEditMode) ==
  LET alertCount == Len(alertDevices)
  IN IF Hidden(cfg, alertCount, isInEditMode) THEN ""
     ELSE TitleText(cfg.title, alertCount, totalDevices)

\* Nothing is listed.
NoDisplay == [devices |-> <<>>, button |-> ""]

\* devicesToShow (lines 3322-3324)
DevicesToShow(cfg, alertDevices, normalDevices) ==
  IF cfg.filter = "all" THEN alertDevices \o normalDevices ELSE alertDevices

\* shouldCollapse (line 3327): collapse is set, not 0, and exceeded.
ShouldCollapse(cfg, devicesToShow) ==
  /\ cfg.collapse # <<>>
  /\ cfg.collapse[1] # 0
  /\ Len(devicesToShow) > cfg.collapse[1]

\* displayDevices (lines 3328-3330)
DisplayDevices(cfg, devicesToShow, isExpanded) ==
  IF ShouldCollapse(cfg, devicesToShow) /\ ~isExpanded
  THEN SubSeq(devicesToShow, 1, cfg.collapse[1])
  ELSE devicesToShow

\* hiddenCount (line 3332)
HiddenCount(cfg, devicesToShow) ==
  IF ShouldCollapse(cfg, devicesToShow) THEN Len(devicesToShow) - cfg.collapse[1] ELSE 0

\* The device list and the expand button of _renderCard (lines 3547-3578);
\* the button is "" when there is none.
CardDisplay(cfg, alertDevices, normalDevices, isExpanded, isInEditMode) ==
  LET devicesToShow == DevicesToShow(cfg, alertDevices, normalDevices)
  IN IF Hidden(cfg, CardAlertCount(alertDevices), isInEditMode) THEN NoDisplay
     ELSE IF alertDevices = <<>> /\ cfg.filter # "all" THEN NoDisplay
     ELSE [devices |-> DisplayDevices(cfg, devicesToShow, isExpanded),
           button |->
             IF ~ShouldCollapse(cfg, devicesToShow) THEN ""
             ELSE IF isExpanded THEN "Show less"
             ELSE "Show " \o NatToString(HiddenCount(cfg, devicesToShow)) \o " more"]

\* What the card (lines 3296-3300) and the badge (lines 4228, 4244-4248) show
\* while there is no hass.
ContentWithoutHass(elem, cfg, isInEditMode) ==
  IF elem = "card" THEN "Loading..."
  ELSE IF isInEditMode
  THEN TitleText(IF cfg.title # "" THEN cfg.title ELSE GetDefaultTitle(EntityType(cfg)), 0, 0)
  ELSE "..."

(***************************************************************************)
(* The host's snapshots the model draws from.                              *)
(***************************************************************************)
\* hass.devices: "dx" has both names, "dn" a name only, "du" neither; no entry
\* for "dm".
DeviceRegistry ==
  [d \in {"dx", "dn", "du"} |->
     CASE d = "dx" -> [name_by_user |-> "Phone", name |-> "x", area_id |-> "kitchen"]
       [] d = "dn" -> [name_by_user |-> "", name |-> "Hub", area_id |-> ""]
       [] d = "du" -> [name_by_user |-> "", name |-> "", area_id |-> "attic"]]

\* hass.areas: no entry for "attic"; "hall" is on no floor.
AreaRegistry ==
  [a \in {"kitchen", "hall", "loft", "vault"} |->
     CASE a = "kitchen" -> [name |-> "Kitchen", floor_id |-> "ground"]
       [] a = "hall" -> [name |-> "Hall", floor_id |-> ""]
       [] a = "loft" -> [name |-> "Loft", floor_id |-> "upper"]
       [] a = "vault" -> [name |-> "", floor_id |-> "cellar"]]

\* hass.floors: "upper" has no name; no entry for "cellar".
FloorRegistry ==
  [f \in {"ground", "upper"} |->
     CASE f = "ground" -> [name |-> "Ground"]
       [] f = "upper" -> [name |-> ""]]

\* An entry of hass.entities.
Reg(deviceId, hidden) == <<[device_id |-> deviceId, hidden |-> hidden, area_id |-> ""]>>
RegArea(areaId) == <<[device_id |-> "", hidden |-> FALSE, area_id |-> areaId]>>
NoReg == <<>>

\* An entity of the host with its entry of hass.entities (reg), if it has one.
Entity(entityId, state, deviceClass, friendlyName, lastChanged, reg) ==
  [entity_id |-> entityId, state |-> state,
   attributes |-> <<[device_class |-> deviceClass, friendly_name |-> friendlyName]>>,
   last_changed |-> lastChanged, reg |-> reg]

\* An entity of the host that has no attributes object.
BareEntity(entityId, state, lastChanged, reg) ==
  [entity_id |-> entityId, state |-> state, attributes |-> <<>>,
   last_changed |-> lastChanged, reg |-> reg]

BatteryCatalogue ==
  {Entity("binary_sensor.x_battery_low", st, "", "X low", 1, Reg("dx", FALSE)) :
     st \in {"on", "off"}}
  \cup {Entity("binary_sensor.x_battery_low", "on", "", "X low", 1, reg) :
     reg \in {Reg("dx", TRUE), NoReg}}
  \cup {Entity("binary_sensor.x_battery_low", "on", "power", "X low", 1, Reg("dx", FALSE))}
  \cup {Entity("sensor.x_battery", st, "battery", "", 2, Reg("dx", FALSE)) :
     st \in {"20", "19.9", "low", "unavailable"}}
  \cup {Entity("sensor.x_battery", "20", "battery", "", 2, reg) :
     reg \in {Reg("", TRUE), NoReg}}
  \cup {Entity("sensor.x_battery_level", st, "battery", "Level", 3, reg) :
     st \in {"45", "low"}, reg \in {Reg("dx", FALSE), Reg("du", FALSE)}}
  \cup {Entity("sensor.x_battery_level", "45", "battery", "Level", 3, reg) :
     reg \in {Reg("dm", FALSE), NoReg}}
  \cup {Entity("sensor.x_battery_charging", "45", dc, "", 4, Reg("dx", FALSE)) :
     dc \in {"", "battery"}}
  \cup {Entity("binary_sensor.door", "on", "battery", "Door", 5, Reg("dn", FALSE)),
        Entity("lock.front", "unlocked", "", "Front", 6, Reg("dx", FALSE)),
        Entity("binary_sensor.x_battery_low", "unavailable", "", "X low", 1, Reg("dx", FALSE)),
        BareEntity("sensor.x_battery_level", "45", 3, NoReg)}

ContactCatalogue ==
  {Entity("lock.front", st, "", "Front", 6, reg) :
     st \in {"jammed", "locked", "unlocked", "on"},
     reg \in {Reg("dx", FALSE), Reg("dx", TRUE), Reg("dm", FALSE), NoReg}}
  \cup {Entity("binary_sensor.door", st, dc, "", 5, reg) :
     st \in {"on", "off", "open"}, dc \in {"door", ""},
     reg \in {Reg("dx", FALSE), Reg("du", FALSE)}}
  \cup {Entity("light.lamp", "on", "", "Lamp", 7, Reg("dx", FALSE)),
        Entity("lock.front", "unavailable", "", "Front", 6, Reg("dx", FALSE)),
        BareEntity("lock.front", "unlocked", 6, Reg("dx", FALSE))}

LightCatalogue ==
  {Entity("light.lamp", st, "", fn, 7, reg) :
     st \in {"on", "off", "unavailable"}, fn \in {"Lamp", ""},
     reg \in {Reg("dx", FALSE), Reg("dx", TRUE), Reg("dm", FALSE), NoReg}}
  \cup {Entity("light.l2", st, "", "L2", 8, reg) :
     st \in {"on", "off"}, reg \in {Reg("dx", FALSE), RegArea("hall")}}
  \cup {Entity("sensor.x_battery", "20", "battery", "", 2, Reg("dx", FALSE)),
        BareEntity("light.lamp", "on", 7, NoReg)}

Catalogue(entityType) ==
  CASE entityType = "battery" -> BatteryCatalogue
    [] entityType = "contact" -> ContactCatalogue
    [] OTHER -> LightCatalogue

\* The sequences of at most MaxEntities entities with pairwise different ids.
Snapshots(entityType) ==
  {s \in UNION {[1..n -> Catalogue(entityType)] : n \in 0..MaxEntities} :
     \A i, j \in 1..Len(s) : i # j => s[i].entity_id # s[j].entity_id}

\* The hass object of a snapshot.
MakeHass(snap) ==
  [defined |-> TRUE,
   states |-> [i \in 1..Len(snap) |->
                 [entity_id |-> snap[i].entity_id, state |-> snap[i].state,
                  attributes |-> snap[i].attributes, last_changed |-> snap[i].last_changed]],
   entities |-> [id \in {snap[i].entity_id : i \in {j \in 1..Len(snap) : snap[j].reg # <<>>}} |->
                   (CHOOSE e \in {snap[i] : i \in 1..Len(snap)} : e.entity_id = id).reg[1]],
   devices |-> DeviceRegistry,
   areas |-> AreaRegistry,
   floors |-> FloorRegistry]

\* The same host without its registries (hass.entities, hass.devices,
\* hass.areas and hass.floors undefined).
NoRegistries(h) ==
  [h EXCEPT !.entities = <<>>, !.devices = <<>>, !.areas = <<>>, !.floors = <<>>]

\* collectDevices(undefined, ...)
NoHass ==
  [defined |-> FALSE, states |-> <<>>, entities |-> <<>>,
   devices |-> DeviceRegistry, areas |-> AreaRegistry, floors |-> FloorRegistry]

\* The configs: entity_type ("" when not set) and battery_threshold (<<>> when
\* not set).
Configs ==
  {[entity_type |-> "", battery_threshold |-> <<>>],
   [entity_type |-> "battery", battery_threshold |-> <<Num(0)>>],
   [entity_type |-> "battery", battery_threshold |-> <<Num(45)>>],
   [entity_type |-> "contact", battery_threshold |-> <<>>],
   [entity_type |-> "light", battery_threshold |-> <<>>],
   [entity_type |-> "switch", battery_threshold |-> <<>>]}

\* The alert and normal lists of an element that has not computed them.
NoLists == [alertDevices |-> <<>>, normalDevices |-> <<>>]

\* The fields of the editor that the model follows: title and collapse are
\* text inputs, filter is a select.
EditorFields == {"title", "collapse", "filter"}

\* The config the dashboard has when the editor opens.
EditorStartConfig == [title |-> "Low Battery", collapse |-> <<>>, filter |-> "alert"]

\* No editor is open.
EditorIdle ==
  /\ editorConfig = EditorStartConfig
  /\ debounceTimeout = <<>>
  /\ hostConfig = EditorStartConfig
  /\ lastEvent = <<>>
  /\ edited = [f \in EditorFields |-> <<>>]
  /\ edits = 0

\* The languages of the translation files the model follows.
Languages == {"en", "es"}

\* new LocalizationHelper() (lines 2360-2364) followed by the preload of
\* English (lines 2449-2452), whose fetch is in flight.
LoaderStart ==
  /\ translations = [l \in Languages |-> <<>>]
  /\ loadPromises = [l \in Languages |-> IF l = "en" THEN "fetching" ELSE "none"]
  /\ inFlight = [l \in Languages |-> IF l = "en" THEN 1 ELSE 0]
  /\ currentLanguage = "en"
  /\ waiting = [l \in Languages |-> 0]
  /\ microtasks = <<>>
  /\ settlement = [l \in Languages |-> "none"]

\* The card after its constructor and its first setConfig, without hass:
\* render() has written the placeholder.
CardStart ==
  /\ cardHass = <<>>
  /\ cardConfig = [title |-> "A"]
  /\ cardExpanded = FALSE
  /\ cardContent = <<>>
  /\ updates = 0

\* What _normalizeAction returns for a config that is no object (line 4105).
NoAction == [type |-> "object", action |-> "none", navigation_path |-> ""]

\* A badge without actions that nobody touches.
BadgeStart ==
  /\ badgeConfig = [tap_action |-> NoAction, hold_action |-> NoAction]
  /\ holdTimeout = <<>>
  /\ holdTriggered = FALSE
  /\ timers = {}
  /\ generation = 0
  /\ pointer = "idle"
  /\ presses = 0
  /\ keyPresses = 0
  /\ elapsed = 0
  /\ heldLong = {}
  /\ clicked = {}
  /\ replaced = FALSE
  /\ handled = <<>>

AsyncIdle == EditorIdle /\ LoaderStart /\ CardStart /\ BadgeStart

\* No call of collectDevices has returned.
OtherInit == history = <<>> /\ AsyncIdle

(***************************************************************************)
(* The inputs of the card and of the badge.                                *)
(***************************************************************************)
\* A config object given to setConfig.
UserConfig(entityType, showUnavailable, groupBy, sortBy, nameSource, visibility) ==
  <<[entity_type |-> entityType, battery_threshold |-> <<>>,
     show_unavailable |-> showUnavailable, group_by |-> groupBy, sort_by |-> sortBy,
     name_source |-> nameSource, visibility |-> visibility,
     filter |-> "", collapse |-> <<>>]>>

\* The same config with filter and collapse (<<>> when not set).
WithDisplay(uc, filter, collapse) ==
  <<[uc[1] EXCEPT !.filter = filter, !.collapse = collapse]>>

\* hass with the dashboard's hass.ui.editMode.
WithUi(h, editMode) == h @@ [ui |-> [editMode |-> editMode]]

\* Few entities of each type, to count.
CountCatalogue(entityType) ==
  CASE entityType = "battery" ->
         {Entity("sensor.a_battery", st, "battery", "Zed", 2, Reg("dx", FALSE)) :
            st \in {"5", "50", "unavailable"}}
         \cup {Entity("binary_sensor.d_battery_low", st, "", "D low", 1, Reg("dn", FALSE)) :
            st \in {"on", "off"}}
    [] entityType = "contact" ->
         {Entity("lock.front", st, "", "Front", 6, Reg("dx", FALSE)) :
            st \in {"unlocked", "locked"}}
    [] OTHER ->
         {Entity("light.lamp", st, "", "Lamp", 7, Reg("dx", FALSE)) :
            st \in {"on", "off", "unavailable"}}
         \cup {Entity("light.l2", "on", "", "L2", 8, RegArea("hall"))}

\* Batteries of several areas, floors, names, levels and dates, to order.
OrderCatalogue ==
  {Entity("sensor.a_battery", st, "battery", "Zed", 2, Reg("dx", FALSE)) :
     st \in {"5", "50"}}
  \cup {Entity("sensor.b_battery", "15", "battery", "Ann", 3, RegArea(a)) :
     a \in {"kitchen", "loft"}}
  \cup {Entity("sensor.b_battery", "unavailable", "battery", "Ann", 3, RegArea("hall"))}
  \cup {Entity("sensor.c_battery", "10", "battery", "", 2, Reg("du", FALSE)),
        Entity("sensor.c_battery", "low", "battery", "", 2, RegArea("vault"))}
  \cup {Entity("binary_sensor.d_battery_low", st, "", "D low", 1, Reg("dn", FALSE)) :
     st \in {"on", "off"}}

\* The sequences of at most MaxEntities entities of a catalogue with pairwise
\* different ids.
SnapshotsOf(catalogue) ==
  {s \in UNION {[1..n -> catalogue] : n \in 0..MaxEntities} :
     \A i, j \in 1..Len(s) : i # j => s[i].entity_id # s[j].entity_id}

\* entity_type of a config object: absent, empty, the three types, another.
TypeOptions == {<<>>, <<"">>, <<"battery">>, <<"contact">>, <<"light">>, <<"switch">>}

\* The element, its config, its dashboard: what is counted and when it shows.
CountingInputs ==
  /\ element \in {"card", "badge"}
  /\ userConfig \in
       {<<>>} \cup
       UNION {{UserConfig(t, su, gb, "", "", v) :
                 t \in TypeOptions, v \in {"", "alert", "always"},
                 gb \in IF element = "card" THEN {"", "none", "area"} ELSE {""}} :
              su \in BOOLEAN}
  /\ hass \in
       {WithUi(NoHass, FALSE)} \cup
       (IF SetConfigThrows(userConfig) THEN {}
        ELSE {WithUi(MakeHass(snap), em) :
                snap \in SnapshotsOf(CountCatalogue(RequestedType(userConfig[1]))),
                em \in BOOLEAN})
  /\ location \in {[edit |-> e] : e \in {"", "1"}}
  /\ engine = "v8"

\* A card of batteries with every grouping and sorting, in both engines.
OrderingInputs ==
  /\ element = "card"
  /\ userConfig \in
       {UserConfig(<<"battery">>, TRUE, gb, sb, ns, "") :
          gb \in {"", "area", "floor"}, sb \in {"", "name", "last_changed"},
          ns \in {"", "entity"}}
  /\ hass \in {WithUi(MakeHass(snap), FALSE) : snap \in SnapshotsOf(OrderCatalogue)}
  /\ location = [edit |-> ""]
  /\ engine \in Engines

\* A card of batteries with every filter and collapse, grouped or not.
DisplayInputs ==
  /\ element = "card"
  /\ userConfig \in
       {WithDisplay(UserConfig(<<"battery">>, su, gb, "", "", ""), f, c) :
          su \in BOOLEAN, gb \in {"", "area"}, f \in {"", "all"},
          c \in {<<0>>, <<1>>}}
  /\ hass \in {WithUi(MakeHass(snap), FALSE) :
                 snap \in SnapshotsOf(CountCatalogue("battery"))}
  /\ location = [edit |-> ""]
  /\ engine = "v8"

(***************************************************************************)
(* The state machine: one call of collectDevices on a snapshot of the host.*)
(***************************************************************************)
Init ==
  /\ config \in Configs
  /\ \/ hass \in {MakeHass(snap) : snap \in Snapshots(EntityType(config))}
     \/ hass \in {NoRegistries(MakeHass(snap)) :
                    snap \in {s \in Snapshots(EntityType(config)) :
                                \A i \in 1..Len(s) : s[i].reg = NoReg}}
     \/ hass = NoHass
  /\ options \in {[includeArea |-> b] : b \in BOOLEAN}
  /\ pc = "call"
  /\ idx = 0
  /\ batteryLowBinarySensors = {}
  /\ devices = <<>>
  /\ result = EmptyResult
  /\ element = "card"
  /\ userConfig = <<>>
  /\ location = [edit |-> ""]
  /\ engine = "v8"
  /\ alerts = <<>>
  /\ normals = <<>>
  /\ grouped = NoLists
  /\ sorted = NoLists
  /\ shadowRoot = ""
  /\ expanded = FALSE
  /\ display = NoDisplay
  /\ OtherInit

\* Lines 2536-2544: no hass or no strategy, the all-empty result.
ReturnEmpty ==
  /\ pc = "call"
  /\ ~hass.defined \/ EntityType(config) \notin ENTITY_TYPES
  /\ result' = EmptyResult
  /\ pc' = "done"
  /\ UNCHANGED <<hass, config, options, idx, batteryLowBinarySensors, devices>>
  /\ UNCHANGED widgetVars
  /\ UNCHANGED displayVars
  /\ UNCHANGED otherVars

\* The map of the records kept from one call to the next.
PrePass_KeepsDevices ==
  /\ pc = "call"
  /\ hass.defined
  /\ EntityType(config) \in ENTITY_TYPES
  /\ batteryLowBinarySensors' = BatteryLowSiblings(hass, EntityType(config))
  /\ idx' = 1
  /\ pc' = "loop"
  /\ UNCHANGED <<hass, config, options, result, devices>>
  /\ UNCHANGED widgetVars
  /\ UNCHANGED displayVars
  /\ UNCHANGED otherVars

\* Lines 2546-2559: the locals and the battery pre-pass.
PrePass ==
  /\ pc = "call"
  /\ hass.defined
  /\ EntityType(config) \in ENTITY_TYPES
  /\ batteryLowBinarySensors' = BatteryLowSiblings(hass, EntityType(config))
  /\ devices' = <<>>
  /\ idx' = 1
  /\ pc' = "loop"
  /\ UNCHANGED <<hass, config, options, result>>
  /\ UNCHANGED widgetVars
  /\ UNCHANGED displayVars
  /\ UNCHANGED otherVars

\* Lines 2561-2649: one iteration of the main forEach.
Visit ==
  /\ pc = "loop"
  /\ idx <= Len(hass.states)
  /\ IF VisitThrows(hass, config, hass.states[idx])
     THEN /\ pc' = "thrown"
          /\ UNCHANGED <<idx, devices>>
     ELSE /\ devices' = VisitEntity(devices, hass, config, options,
                                    batteryLowBinarySensors, hass.states[idx])
          /\ idx' = idx + 1
          /\ pc' = pc
  /\ UNCHANGED <<hass, config, options, batteryLowBinarySensors, result>>
  /\ UNCHANGED widgetVars
  /\ UNCHANGED displayVars
  /\ UNCHANGED otherVars

\* Lines 2651-2670: the buckets and the return.
Return ==
  /\ pc = "loop"
  /\ idx > Len(hass.states)
  /\ result' = MakeResult(devices)
  /\ pc' = "done"
  /\ UNCHANGED <<hass, config, options, idx, batteryLowBinarySensors, devices>>
  /\ UNCHANGED widgetVars
  /\ UNCHANGED displayVars
  /\ UNCHANGED otherVars

Next == ReturnEmpty \/ PrePass \/ Visit \/ Return

Spec == Init /\ [][Next]_vars

(***************************************************************************)
(* The state machine of the calls: collectDevices called again and again,  *)
(* by the card and the badges of a dashboard, on the snapshots and configs *)
(* they have.  The locals of a call stay as the call left them until the   *)
(* next call sets them.                                                    *)
(***************************************************************************)
\* No element is modelled.
WidgetIdle ==
  /\ element = "card"
  /\ userConfig = <<>>
  /\ location = [edit |-> ""]
  /\ engine = "v8"
  /\ alerts = <<>>
  /\ normals = <<>>
  /\ grouped = NoLists
  /\ sorted = NoLists
  /\ shadowRoot = ""
  /\ expanded = FALSE
  /\ display = NoDisplay

\* The snapshots the calls are made on.
CallSnapshots ==
  {<<>>,
   <<Entity("sensor.x_battery", "19.9", "battery", "", 2, Reg("dx", FALSE))>>,
   <<Entity("sensor.x_battery_level", "low", "battery", "Level", 3, Reg("dx", FALSE)),
     Entity("binary_sensor.door", "on", "battery", "Door", 5, Reg("dn", FALSE))>>}

\* The host with one phone: sensor.phone_battery at 15, of the device phone.
PhoneHass ==
  [MakeHass(<<Entity("sensor.phone_battery", "15", "battery", "", 1,
                     Reg("phone", FALSE))>>)
     EXCEPT !.devices = [d \in {"phone"} |->
                           [name_by_user |-> "", name |-> "Phone", area_id |-> ""]]]

\* The arguments of a call.
CallInputs ==
  {[hass |-> MakeHass(snap), config |-> cfg, options |-> [includeArea |-> TRUE]] :
     snap \in CallSnapshots,
     cfg \in {[entity_type |-> "", battery_threshold |-> <<>>],
              [entity_type |-> "battery", battery_threshold |-> <<Num(45)>>]}}
  \cup {[hass |-> NoHass, config |-> [entity_type |-> "", battery_threshold |-> <<>>],
         options |-> [includeArea |-> FALSE]],
        [hass |-> PhoneHass,
         config |-> [entity_type |-> "battery", battery_threshold |-> <<Num(20)>>],
         options |-> [includeArea |-> TRUE]]}

CallsInit ==
  /\ \E in \in CallInputs :
       /\ hass = in.hass
       /\ config = in.config
       /\ options = in.options
  /\ pc = "call"
  /\ idx = 0
  /\ batteryLowBinarySensors = {}
  /\ devices = <<>>
  /\ result = EmptyResult
  /\ WidgetIdle
  /\ OtherInit

\* The call has returned and collectDevices is called again; what the call
\* was given and what it returned is recorded.
CallAgain ==
  /\ pc = "done"
  /\ Len(history) < MaxCalls
  /\ history' = Append(history, [hass |-> hass, config |-> config, options |-> options,
                                 result |-> result])
  /\ \E in \in CallInputs :
       /\ hass' = in.hass
       /\ config' = in.config
       /\ options' = in.options
  /\ pc' = "call"
  /\ UNCHANGED <<idx, batteryLowBinarySensors, devices, result>>
  /\ UNCHANGED widgetVars
  /\ UNCHANGED displayVars
  /\ UNCHANGED asyncVars

CallsNext == ReturnEmpty \/ PrePass \/ Visit \/ Return \/ CallAgain

CallsSpec == CallsInit /\ [][CallsNext]_vars

(***************************************************************************)
(* The state machine of an element: setConfig, then one render on a        *)
(* snapshot of the host.                                                   *)
(***************************************************************************)
WidgetInit ==
  /\ CountingInputs \/ OrderingInputs \/ DisplayInputs
  /\ config = NoConfig
  /\ options = [includeArea |-> element = "card"]
  /\ pc = "setConfig"
  /\ idx = 0
  /\ batteryLowBinarySensors = {}
  /\ devices = <<>>
  /\ result = EmptyResult
  /\ alerts = <<>>
  /\ normals = <<>>
  /\ grouped = NoLists
  /\ sorted = NoLists
  /\ shadowRoot = ""
  /\ expanded = FALSE
  /\ display = NoDisplay
  /\ OtherInit

\* setConfig throws (lines 2916-2925 and 4033-4042).
SetConfigRejects ==
  /\ pc = "setConfig"
  /\ SetConfigThrows(userConfig)
  /\ pc' = "rejected"
  /\ UNCHANGED <<hass, config, options, idx, batteryLowBinarySensors, devices, result>>
  /\ UNCHANGED widgetVars
  /\ UNCHANGED displayVars
  /\ UNCHANGED otherVars

\* setConfig stores the config (lines 2927-2944 and 4044-4063).
SetConfig ==
  /\ pc = "setConfig"
  /\ ~SetConfigThrows(userConfig)
  /\ config' = StoredConfig(userConfig[1])
  /\ pc' = "render"
  /\ UNCHANGED <<hass, options, idx, batteryLowBinarySensors, devices, result>>
  /\ UNCHANGED widgetVars
  /\ UNCHANGED displayVars
  /\ UNCHANGED otherVars

\* render without hass (lines 3295-3302 and 4218-4251).
RenderWithoutHass ==
  /\ pc = "render"
  /\ ~hass.defined
  /\ shadowRoot' = ContentWithoutHass(element, config, IsInEditMode(hass, location))
  /\ display' = NoDisplay
  /\ pc' = "rendered"
  /\ UNCHANGED <<hass, config, options, idx, batteryLowBinarySensors, devices, result>>
  /\ UNCHANGED <<element, userConfig, location, engine, alerts, normals, grouped, sorted>>
  /\ UNCHANGED expanded
  /\ UNCHANGED otherVars

\* _getDevices up to the folding (lines 2966-2989 and 4078-4095).
GetDevices ==
  /\ pc = "render"
  /\ hass.defined
  /\ IF \E i \in 1..Len(hass.states) : VisitThrows(hass, config, hass.states[i])
     THEN /\ pc' = "thrown"
          /\ UNCHANGED <<result, alerts, normals>>
     ELSE LET res == CollectDevices(hass, config, options)
          IN /\ result' = res
             /\ alerts' = FoldAlerts(res, config)
             /\ normals' = IF element = "card" THEN FoldNormals(res, config) ELSE <<>>
             /\ pc' = IF element = "card" THEN "group" ELSE "renderBadge"
  /\ UNCHANGED <<hass, config, options, idx, batteryLowBinarySensors, devices>>
  /\ UNCHANGED <<element, userConfig, location, engine, grouped, sorted, shadowRoot>>
  /\ UNCHANGED displayVars
  /\ UNCHANGED otherVars

\* The two calls of _groupDevices (lines 2991-2992).
Group ==
  /\ pc = "group"
  /\ grouped' = [alertDevices |-> GroupDevices(hass, config, alerts),
                 normalDevices |-> GroupDevices(hass, config, normals)]
  /\ pc' = "sort"
  /\ UNCHANGED <<hass, config, options, idx, batteryLowBinarySensors, devices, result>>
  /\ UNCHANGED <<element, userConfig, location, engine, alerts, normals, sorted, shadowRoot>>
  /\ UNCHANGED displayVars
  /\ UNCHANGED otherVars

\* The two calls of _sortDevices (lines 2994-2995).
Sort ==
  /\ pc = "sort"
  /\ sorted' = [alertDevices |-> SortDevices(engine, config, grouped.alertDevices),
                normalDevices |-> SortDevices(engine, config, grouped.normalDevices)]
  /\ pc' = "renderCard"
  /\ UNCHANGED <<hass, config, options, idx, batteryLowBinarySensors, devices, result>>
  /\ UNCHANGED <<element, userConfig, location, engine, alerts, normals, grouped, shadowRoot>>
  /\ UNCHANGED displayVars
  /\ UNCHANGED otherVars

\* _renderCard after _getDevices (lines 3316-3347).
RenderCard ==
  /\ pc = "renderCard"
  /\ IF RenderCardThrows(config)
     THEN /\ pc' = "thrown"
          /\ UNCHANGED <<shadowRoot, display>>
     ELSE /\ shadowRoot' = CardContent(config, sorted.alertDevices, result.totalDevices,
                                       IsInEditMode(hass, location))
          /\ display' = CardDisplay(config, sorted.alertDevices, sorted.normalDevices,
                                    expanded, IsInEditMode(hass, location))
          /\ pc' = "rendered"
  /\ UNCHANGED <<hass, config, options, idx, batteryLowBinarySensors, devices, result>>
  /\ UNCHANGED <<element, userConfig, location, engine, alerts, normals, grouped, sorted>>
  /\ UNCHANGED expanded
  /\ UNCHANGED otherVars

\* _renderBadge after _getDevices (lines 4267-4279).
RenderBadge ==
  /\ pc = "renderBadge"
  /\ IF RenderBadgeThrows(config, alerts, IsInEditMode(hass, location))
     THEN /\ pc' = "thrown"
          /\ UNCHANGED shadowRoot
     ELSE /\ shadowRoot' = BadgeContent(config, alerts, result.totalDevices,
                                        IsInEditMode(hass, location))
          /\ pc' = "rendered"
  /\ UNCHANGED <<hass, config, options, idx, batteryLowBinarySensors, devices, result>>
  /\ UNCHANGED <<element, userConfig, location, engine, alerts, normals, grouped, sorted>>
  /\ UNCHANGED displayVars
  /\ UNCHANGED otherVars

\* A click on the expand button: _toggleExpanded (lines 3267-3270).
ToggleExpanded ==
  /\ pc = "rendered"
  /\ element = "card"
  /\ display.button # ""
  /\ expanded' = ~expanded
  /\ pc' = "render"
  /\ UNCHANGED <<hass, config, options, idx, batteryLowBinarySensors, devices, result>>
  /\ UNCHANGED widgetVars
  /\ UNCHANGED display
  /\ UNCHANGED otherVars

WidgetNext ==
  \/ ToggleExpanded
  \/ SetConfigRejects
  \/ SetConfig
  \/ RenderWithoutHass
  \/ GetDevices
  \/ Group
  \/ Sort
  \/ RenderCard
  \/ RenderBadge

WidgetSpec == WidgetInit /\ [][WidgetNext]_vars

(***************************************************************************)
(* The state machine of the card editor: the edits of the user, the        *)
(* debounce timer and the setConfig calls of the host.                     *)
(***************************************************************************)
\* collectDevices is not running.
CollectIdle ==
  /\ hass = NoHass
  /\ config = [entity_type |-> "", battery_threshold |-> <<>>]
  /\ options = [includeArea |-> FALSE]
  /\ pc = "idle"
  /\ idx = 0
  /\ batteryLowBinarySensors = {}
  /\ devices = <<>>
  /\ result = EmptyResult

\* The values the handlers store for what the user types or selects: the text
\* of the title, no collapse for an empty input and Number(value) otherwise
\* (lines 3965-3971), the value of the select.
EditorValues(field) ==
  CASE field = "title" -> {"A", "B"}
    [] field = "collapse" -> {<<>>, <<2>>}
    [] field = "filter" -> {"alert", "all"}

\* setConfig of the editor has been called with the config of the dashboard.
EditorInit ==
  /\ CollectIdle
  /\ WidgetIdle
  /\ history = <<>>
  /\ AsyncIdle

\* dispatchEvent of configChanged (lines 3698-3705): the host takes the detail.
Dispatch(newConfig) ==
  /\ lastEvent' = <<newConfig>>
  /\ hostConfig' = newConfig

\* oninput of a text input: updateConfig(..., true) (lines 3925-3928) and
\* configChanged(newConfig, false) (lines 3688-3713).
EditText ==
  /\ edits < MaxEdits
  /\ \E field \in {"title", "collapse"} : \E value \in EditorValues(field) :
       LET newConfig == [editorConfig EXCEPT ![field] = value]
       IN /\ editorConfig' = newConfig
          /\ debounceTimeout' = <<newConfig>>
          /\ edited' = [edited EXCEPT ![field] = <<value>>]
  /\ edits' = edits + 1
  /\ UNCHANGED <<hostConfig, lastEvent>>
  /\ UNCHANGED <<collectVars, widgetVars, displayVars, history, loaderVars, cardVars, pressVars>>

\* onchange of a select: updateConfig(..., false) and
\* configChanged(newConfig, true); a pending timer is cleared.
EditSelect ==
  /\ edits < MaxEdits
  /\ \E value \in EditorValues("filter") :
       LET newConfig == [editorConfig EXCEPT !["filter"] = value]
       IN /\ editorConfig' = newConfig
          /\ Dispatch(newConfig)
          /\ edited' = [edited EXCEPT !["filter"] = <<value>>]
  /\ debounceTimeout' = <<>>
  /\ edits' = edits + 1
  /\ UNCHANGED <<collectVars, widgetVars, displayVars, history, loaderVars, cardVars, pressVars>>

\* The debounce timer fires after 500 ms (line 3711).
TimerFires ==
  /\ debounceTimeout # <<>>
  /\ Dispatch(debounceTimeout[1])
  /\ debounceTimeout' = <<>>
  /\ UNCHANGED <<editorConfig, edited, edits>>
  /\ UNCHANGED <<collectVars, widgetVars, displayVars, history, loaderVars, cardVars, pressVars>>

\* The host calls setConfig with its config (lines 3649-3657).
EditorSetConfig ==
  /\ editorConfig # hostConfig
  /\ editorConfig' = hostConfig
  /\ UNCHANGED <<debounceTimeout, hostConfig, lastEvent, edited, edits>>
  /\ UNCHANGED <<collectVars, widgetVars, displayVars, history, loaderVars, cardVars, pressVars>>

EditorNext == EditText \/ EditSelect \/ TimerFires \/ EditorSetConfig

EditorSpec == EditorInit /\ [][EditorNext]_vars

(***************************************************************************)
(* The state machine of the asynchronous render: the card schedules        *)
(* _renderCard behind LocalizationHelper.setLanguage, the fetches of the   *)
(* translation files settle, and the microtasks of the page run in order.  *)
(***************************************************************************)
\* The language tags of the snapshots, as their subtags.
LanguageTags == {<<"en">>, <<"es", "ES">>}

\* lang.split('-')[0] (line 2416).
ShortLang(lang) == Head(lang)

\* What a fetch can end in: a table, a response that is not ok, a rejection.
FetchOutcomes == {"ok", "http error", "network failure"}

\* The table of a translation file.
FetchedTable(language) == [file |-> language, sections |-> "all"]

\* The structure of lines 2394-2399.
EmptyStructure == [file |-> "", sections |-> "empty"]

\* A catch block that lets every failure of the fetch through.
TryCatch_Rethrows(language, outcome, english) ==
  IF outcome = "ok" THEN "resolved" ELSE "rejected"

\* How the async function of lines 2375-2404 ends for a fetch outcome, where
\* english is how the awaited load of English has settled: the try block
\* returns on a table; the catch block awaits the load of English for another
\* language (line 2388) and assigns for English (lines 2394-2399).
TryCatch(language, outcome, english) ==
  IF outcome = "ok" THEN "resolved"
  ELSE IF language # "en" THEN english
  ELSE "resolved"

\* The microtasks of n renders that wait on a load promise: the rest of
\* setLanguage (line 2421) when it resolves, the catch callback of render
\* (lines 3308-3311) when it rejects.
Continuations(language, n, settled) ==
  [k \in 1..n |->
     IF settled = "resolved"
       THEN [step |-> "setLanguage", language |-> language]
       ELSE [step |-> "renderCard", language |-> ""]]

AsyncInit ==
  /\ CollectIdle
  /\ WidgetIdle
  /\ history = <<>>
  /\ AsyncIdle

\* render() (lines 3294-3312) with the hass h: the placeholder without hass,
\* otherwise setLanguage (lines 2409-2422) and loadTranslations (lines
\* 2366-2407) up to their first await.
ScheduleRender(h) ==
  IF h = <<>>
    THEN /\ cardContent' = <<>>
         /\ UNCHANGED loaderVars
    ELSE LET shortLang == ShortLang(h[1].language)
         IN /\ UNCHANGED <<cardContent, translations, currentLanguage, settlement>>
            /\ IF translations[shortLang] # <<>>
                 THEN /\ microtasks' = microtasks \o Continuations(shortLang, 1, "resolved")
                      /\ UNCHANGED <<loadPromises, inFlight, waiting>>
                 ELSE /\ waiting' = [waiting EXCEPT ![shortLang] = @ + 1]
                      /\ UNCHANGED microtasks
                      /\ IF loadPromises[shortLang] # "none"
                           THEN UNCHANGED <<loadPromises, inFlight>>
                           ELSE /\ loadPromises' = [loadPromises EXCEPT ![shortLang] = "fetching"]
                                /\ inFlight' = [inFlight EXCEPT ![shortLang] = @ + 1]

\* set hass (lines 2950-2953) with a new snapshot.
SetHass ==
  /\ updates < MaxUpdates
  /\ \E language \in LanguageTags :
       LET h == <<[version |-> updates + 1, language |-> language]>>
       IN /\ cardHass' = h
          /\ ScheduleRender(h)
  /\ updates' = updates + 1
  /\ UNCHANGED <<cardConfig, cardExpanded>>
  /\ UNCHANGED <<collectVars, widgetVars, displayVars, history, editorVars, pressVars>>

\* setConfig (lines 2915-2945) with another valid config.
CardSetConfig ==
  /\ updates < MaxUpdates
  /\ \E title \in {"A", "B"} :
       /\ title # cardConfig.title
       /\ cardConfig' = [title |-> title]
  /\ ScheduleRender(cardHass)
  /\ updates' = updates + 1
  /\ UNCHANGED <<cardHass, cardExpanded>>
  /\ UNCHANGED <<collectVars, widgetVars, displayVars, history, editorVars, pressVars>>

\* _toggleExpanded (lines 3267-3270).
ClickExpand ==
  /\ updates < MaxUpdates
  /\ cardContent # <<>>
  /\ cardExpanded' = ~cardExpanded
  /\ ScheduleRender(cardHass)
  /\ updates' = updates + 1
  /\ UNCHANGED <<cardHass, cardConfig>>
  /\ UNCHANGED <<collectVars, widgetVars, displayVars, history, editorVars, pressVars>>

\* The load promises that settle when the fetch of English does: the one of
\* English and the one of a language whose load waits for English (line 2388).
SettlesWithEnglish(l) == l = "en" \/ loadPromises[l] = "fallback"

\* The translations after the load promise of English has resolved with the
\* table t: a load that waits for English copies it (line 2390).
AfterEnglish(t) ==
  [l \in Languages |-> IF SettlesWithEnglish(l) THEN <<t>> ELSE translations[l]]

\* The fetch of a translation file settles and the async function of lines
\* 2375-2404 runs to its next await or to its end; the callers that wait on a
\* settled load promise continue in the order of their await.
FetchSettles ==
  /\ microtasks = <<>>
  /\ \E language \in Languages : \E outcome \in FetchOutcomes :
       /\ loadPromises[language] = "fetching"
       /\ inFlight' = [inFlight EXCEPT ![language] = @ - 1]
       /\ IF language = "en"
            THEN LET t == IF outcome = "ok" THEN FetchedTable("en") ELSE EmptyStructure
                     english == TryCatch("en", outcome, "resolved")
                     other(waiter) == TryCatch(waiter, "network failure", english)
                 IN /\ translations' =
                         IF english = "resolved" THEN AfterEnglish(t) ELSE translations
                    /\ loadPromises' = [l \in Languages |->
                                          IF SettlesWithEnglish(l) THEN "none"
                                          ELSE loadPromises[l]]
                    /\ settlement' = [l \in Languages |->
                                        IF l = "en" THEN english
                                        ELSE IF SettlesWithEnglish(l) THEN other(l)
                                        ELSE settlement[l]]
                    /\ waiting' = [l \in Languages |->
                                     IF SettlesWithEnglish(l) THEN 0 ELSE waiting[l]]
                    /\ microtasks' = Continuations("en", waiting["en"], english)
                                       \o (IF SettlesWithEnglish("es")
                                             THEN Continuations("es", waiting["es"], other("es"))
                                             ELSE <<>>)
            ELSE IF outcome = "ok" \/ translations["en"] # <<>>
              THEN LET settled == TryCatch(language, outcome, "resolved")
                   IN /\ translations' =
                           IF settled = "rejected" THEN translations
                           ELSE [translations EXCEPT ![language] =
                                   IF outcome = "ok" THEN <<FetchedTable(language)>>
                                   ELSE translations["en"]]
                      /\ loadPromises' = [loadPromises EXCEPT ![language] = "none"]
                      /\ settlement' = [settlement EXCEPT ![language] = settled]
                      /\ waiting' = [waiting EXCEPT ![language] = 0]
                      /\ microtasks' = Continuations(language, waiting[language], settled)
              ELSE /\ loadPromises' = [loadPromises EXCEPT ![language] = "fallback"]
                   /\ UNCHANGED <<translations, waiting, microtasks, settlement>>
  /\ UNCHANGED currentLanguage
  /\ UNCHANGED cardVars
  /\ UNCHANGED <<collectVars, widgetVars, displayVars, history, editorVars, pressVars>>

\* The first microtask runs: the rest of setLanguage (line 2421), whose
\* promise then queues the callback of line 3306, or that callback, which
\* is _renderCard (lines 3314-3347).
RunMicrotask ==
  /\ microtasks # <<>>
  /\ IF Head(microtasks).step = "setLanguage"
       THEN /\ currentLanguage' = Head(microtasks).language
            /\ microtasks' = Append(Tail(microtasks), [step |-> "renderCard", language |-> ""])
            /\ UNCHANGED cardContent
       ELSE /\ cardContent' = <<[hass |-> cardHass[1], config |-> cardConfig,
                                 expanded |-> cardExpanded, language |-> currentLanguage]>>
            /\ microtasks' = Tail(microtasks)
            /\ UNCHANGED currentLanguage
  /\ UNCHANGED <<translations, loadPromises, inFlight, waiting, settlement>>
  /\ UNCHANGED <<cardHass, cardConfig, cardExpanded, updates>>
  /\ UNCHANGED <<collectVars, widgetVars, displayVars, history, editorVars, pressVars>>

AsyncNext == SetHass \/ CardSetConfig \/ ClickExpand \/ FetchSettles \/ RunMicrotask

AsyncSpec == AsyncInit /\ [][AsyncNext]_vars

\* The event loop runs every queued microtask, and every fetch settles in one
\* of the outcomes.
AsyncFairSpec == AsyncSpec /\ WF_vars(RunMicrotask) /\ WF_vars(FetchSettles)

(***************************************************************************)
(* The state machine of the press handlers of the badge: the pointer and   *)
(* key events of the user, the hold timer, and the renders that replace    *)
(* the badge element.                                                      *)
(***************************************************************************)
\* The values of tap_action and hold_action in the config of the user, with
\* what typeof says of them; an object without action has action "".
ActionConfigs ==
  { [type |-> "undefined"],
    [type |-> "null"],
    [type |-> "string", value |-> "navigate"],
    [type |-> "object", action |-> "", navigation_path |-> "/lovelace/0"],
    [type |-> "object", action |-> "none", navigation_path |-> "/lovelace/0"],
    [type |-> "object", action |-> "navigate", navigation_path |-> "/lovelace/0"],
    [type |-> "object", action |-> "more-info", navigation_path |-> ""] }

\* _normalizeAction (lines 4102-4112)
NormalizeAction(actionConfig) ==
  LET normalized == IF actionConfig.type = "object" THEN actionConfig ELSE NoAction
  IN IF normalized.action = "" THEN [normalized EXCEPT !.action = "none"]
     ELSE normalized

\* _handleAction (lines 4117-4193): what the call does, "" for nothing.
HandleAction(actionConfig) ==
  LET normalizedAction == NormalizeAction(actionConfig)
      action == normalizedAction.action
  IN IF action = "none" THEN ""
     ELSE IF action = "navigate"
       THEN IF normalizedAction.navigation_path # "" THEN "location-changed" ELSE ""
     ELSE IF action = "more-info" THEN "hass-more-info"
     ELSE ""

\* hasTapAction, hasHoldAction, hasAnyAction of _renderBadge (lines 4281-4287,
\* without a double_tap_action).
HasAction(actionConfig) ==
  NormalizeAction(actionConfig).action # "" /\ NormalizeAction(actionConfig).action # "none"

HasTapAction == HasAction(badgeConfig.tap_action)

HasHoldAction == HasAction(badgeConfig.hold_action)

HasAnyAction == HasTapAction \/ HasHoldAction

\* setConfig of the badge (lines 4032-4064) and its first _renderBadge.
PressInit ==
  /\ CollectIdle
  /\ WidgetIdle
  /\ history = <<>>
  /\ EditorIdle /\ LoaderStart /\ CardStart
  /\ \E tap \in ActionConfigs : \E hold \in ActionConfigs :
       badgeConfig = [tap_action |-> NormalizeAction(tap),
                      hold_action |-> NormalizeAction(hold)]
  /\ holdTimeout = <<>>
  /\ holdTriggered = FALSE
  /\ timers = {}
  /\ generation = 0
  /\ pointer = "idle"
  /\ presses = 0
  /\ keyPresses = 0
  /\ elapsed = 0
  /\ heldLong = {}
  /\ clicked = {}
  /\ replaced = FALSE
  /\ handled = <<>>

\* clearHold (lines 4328-4333), where the listeners of lines 4335-4355 exist.
ClearHold ==
  IF HasHoldAction /\ holdTimeout # <<>>
    THEN /\ timers' = {t \in timers : t.press # holdTimeout[1]}
         /\ holdTimeout' = <<>>
    ELSE UNCHANGED <<timers, holdTimeout>>

\* The user presses the pointer on the badge: the pointerdown listener
\* (lines 4336-4342).
PointerDown ==
  /\ pointer \in {"idle", "left"}
  /\ presses < MaxPresses
  /\ pointer' = "down"
  /\ presses' = presses + 1
  /\ replaced' = FALSE
  /\ IF HasHoldAction
       THEN /\ holdTriggered' = FALSE
            /\ holdTimeout' = <<presses + 1>>
            /\ timers' = timers \cup {[press |-> presses + 1, generation |-> generation]}
       ELSE UNCHANGED <<holdTriggered, holdTimeout, timers>>
  /\ UNCHANGED <<badgeConfig, generation, keyPresses, elapsed, heldLong, clicked, handled>>
  /\ UNCHANGED <<collectVars, widgetVars, displayVars, history, editorVars, loaderVars, cardVars>>

\* The user releases the pointer over the badge: the pointerup listener
\* (lines 4344-4346).
PointerUp ==
  /\ pointer \in {"down", "left"}
  /\ pointer' = "released"
  /\ ClearHold
  /\ UNCHANGED <<badgeConfig, holdTriggered, generation, presses, keyPresses, elapsed,
                 heldLong, clicked, replaced, handled>>
  /\ UNCHANGED <<collectVars, widgetVars, displayVars, history, editorVars, loaderVars, cardVars>>

\* The pressed pointer leaves the badge: the pointerleave listener (lines
\* 4348-4350).
PointerLeave ==
  /\ pointer = "down"
  /\ pointer' = "left"
  /\ ClearHold
  /\ UNCHANGED <<badgeConfig, holdTriggered, generation, presses, keyPresses, elapsed,
                 heldLong, clicked, replaced, handled>>
  /\ UNCHANGED <<collectVars, widgetVars, displayVars, history, editorVars, loaderVars, cardVars>>

\* The browser cancels the press: the pointercancel listener (lines
\* 4352-4354); no click follows.
PointerCancel ==
  /\ pointer = "down"
  /\ pointer' = "idle"
  /\ ClearHold
  /\ UNCHANGED <<badgeConfig, holdTriggered, generation, presses, keyPresses, elapsed,
                 heldLong, clicked, replaced, handled>>
  /\ UNCHANGED <<collectVars, widgetVars, displayVars, history, editorVars, loaderVars, cardVars>>

\* The click that follows the release: the click listener (lines 4358-4365).
\* When the element was replaced during the press the browser may dispatch
\* no click.
Click ==
  /\ pointer = "released"
  /\ pointer' = "idle"
  /\ \E dispatched \in (IF replaced THEN BOOLEAN ELSE {TRUE}) :
       IF ~dispatched
         THEN UNCHANGED <<clicked, holdTriggered, handled>>
         ELSE /\ clicked' = clicked \cup {presses}
              /\ IF ~HasTapAction
                   THEN UNCHANGED <<holdTriggered, handled>>
                   ELSE IF holdTriggered
                     THEN /\ holdTriggered' = FALSE
                          /\ UNCHANGED handled
                     ELSE /\ handled' = Append(handled,
                                 [source |-> "tap", press |-> presses,
                                  did |-> HandleAction(badgeConfig.tap_action)])
                          /\ UNCHANGED holdTriggered
  /\ UNCHANGED <<badgeConfig, holdTimeout, timers, generation, presses, keyPresses, elapsed,
                 heldLong, replaced>>
  /\ UNCHANGED <<collectVars, widgetVars, displayVars, history, editorVars, loaderVars, cardVars>>

\* 500 ms have passed since the oldest press that has not had them: a timer
\* of that press that is still pending runs its callback (lines 4338-4341),
\* which writes the holdTriggered of the element that set it.
HalfSecondPasses ==
  /\ elapsed < presses
  /\ elapsed' = elapsed + 1
  /\ heldLong' = IF pointer = "down" /\ presses = elapsed + 1
                   THEN heldLong \cup {elapsed + 1} ELSE heldLong
  /\ LET due == {t \in timers : t.press = elapsed + 1}
     IN /\ timers' = timers \ due
        /\ IF due = {}
             THEN UNCHANGED <<holdTriggered, handled>>
             ELSE /\ holdTriggered' =
                       IF \E t \in due : t.generation = generation THEN TRUE
                       ELSE holdTriggered
                  /\ handled' = Append(handled,
                         [source |-> "hold", press |-> elapsed + 1,
                          did |-> HandleAction(badgeConfig.hold_action)])
  /\ UNCHANGED <<badgeConfig, holdTimeout, generation, pointer, presses, keyPresses,
                 clicked, replaced>>
  /\ UNCHANGED <<collectVars, widgetVars, displayVars, history, editorVars, loaderVars, cardVars>>

\* A hass update renders the badge again: _renderBadge (lines 4264-4382)
\* replaces the badge element and gives the new one its own holdTimeout and
\* holdTriggered (lines 4325-4326).
RenderBadgeAgain ==
  /\ generation < MaxRenders
  /\ generation' = generation + 1
  /\ holdTimeout' = <<>>
  /\ holdTriggered' = FALSE
  /\ replaced' = (replaced \/ pointer # "idle")
  /\ UNCHANGED <<badgeConfig, timers, pointer, presses, keyPresses, elapsed, heldLong,
                 clicked, handled>>
  /\ UNCHANGED <<collectVars, widgetVars, displayVars, history, editorVars, loaderVars, cardVars>>

\* The user presses Enter or Space on the focused badge: the keydown listener
\* (lines 4375-4380), which exists when an action is configured.
KeyDown ==
  /\ keyPresses < MaxPresses
  /\ keyPresses' = keyPresses + 1
  /\ handled' = IF HasAnyAction
                  THEN Append(handled, [source |-> "key", press |-> 0,
                                        did |-> HandleAction(badgeConfig.tap_action)])
                  ELSE handled
  /\ UNCHANGED <<badgeConfig, holdTimeout, holdTriggered, timers, generation, pointer,
                 presses, elapsed, heldLong, clicked, replaced>>
  /\ UNCHANGED <<collectVars, widgetVars, displayVars, history, editorVars, loaderVars, cardVars>>

PressNext ==
  \/ PointerDown \/ PointerUp \/ PointerLeave \/ PointerCancel \/ Click
  \/ HalfSecondPasses \/ RenderBadgeAgain \/ KeyDown

PressSpec == PressInit /\ [][PressNext]_vars

(***************************************************************************)
(* Vocabulary of the properties.                                           *)
(***************************************************************************)
\* collectDevices has returned the buckets of a snapshot.
Collected == pc = "done" /\ hass.defined /\ EntityType(config) \in ENTITY_TYPES

Positions == 1..Len(hass.states)

Records(s) == {s[i] : i \in 1..Len(s)}

Occurrences(s, r) == Cardinality({i \in 1..Len(s) : s[i] = r})

\* The entity passes detect and the filters of lines 2565-2583.
Survives(e) ==
  /\ Detect(EntityType(config), e.entity_id, Attributes(e)[1])
  /\ ~IsEntityHidden(hass, e.entity_id)
  /\ ~(EntityType(config) = "battery"
       /\ e.entity_id \in BatteryLowSiblings(hass, "battery"))

\* The device the records of an entity carry ("" when it resolves to none).
DeviceOf(e) ==
  IF ResolveDevice(hass, options, e).ok THEN ResolveDevice(hass, options, e).deviceId ELSE ""

(***************************************************************************)
(* C1: the alert and the normal bucket partition the aggregated records:   *)
(* their lengths add up to totalDevices, which is the length of            *)
(* allDevices, and every record of allDevices occurs exactly once in       *)
(* exactly one of the two, whatever the unavailable bucket holds.          *)
(***************************************************************************)
C1_AlertNormalPartition ==
  pc = "done" =>
    /\ Len(result.alertDevices) + Len(result.normalDevices) = result.totalDevices
    /\ result.totalDevices = Len(result.allDevices)
    /\ Records(result.alertDevices) \cup Records(result.normalDevices)
         = Records(result.allDevices)
    /\ \A r \in Records(result.allDevices) :
         Occurrences(result.alertDevices, r) + Occurrences(result.normalDevices, r) = 1

C1_Witness ==
  /\ Collected
  /\ result.alertDevices # <<>>
  /\ \E r \in Records(result.unavailableDevices) : r \in Records(result.normalDevices)
  /\ \E r \in Records(result.normalDevices) : ~r.stateInfo.isUnavailable

(***************************************************************************)
(* C2: battery records are keyed by device (at most one record per         *)
(* deviceId); contact and light records are keyed by entity: exactly one   *)
(* record for every entity that passes detect, is not hidden and resolves  *)
(* to a device, also when two of them belong to the same device.           *)
(***************************************************************************)
C2_KeyAsymmetry ==
  Collected =>
    LET all == result.allDevices
    IN /\ EntityType(config) = "battery" =>
            \A i, j \in 1..Len(all) : i # j => all[i].deviceId # all[j].deviceId
       /\ EntityType(config) \in {"contact", "light"} =>
            /\ \A i, j \in 1..Len(all) : i # j => all[i].entityId # all[j].entityId
            /\ {all[i].entityId : i \in 1..Len(all)}
                 = {hass.states[p].entity_id :
                      p \in {q \in Positions :
                               /\ Detect(EntityType(config), hass.states[q].entity_id,
                                         Attributes(hass.states[q])[1])
                               /\ ~IsEntityHidden(hass, hass.states[q].entity_id)
                               /\ DeviceOf(hass.states[q]) # ""}}

C2_Witness ==
  /\ Collected
  /\ EntityType(config) \in {"contact", "light"}
  /\ \E r1, r2 \in Records(result.allDevices) :
       /\ r1.entityId # r2.entityId
       /\ r1.deviceId = r2.deviceId
       /\ r1.deviceId \in DOMAIN hass.devices

(***************************************************************************)
(* C3 and C8 speak of binary_sensor.X_battery_low and its sensor.X_battery.*)
(***************************************************************************)
\* The id is binary_sensor.X_battery_low for some non-empty X.
IsBatteryLowId(id) ==
  /\ StartsWith(id, "binary_sensor.")
  /\ EndsWith(id, "_battery_low")
  /\ Len(id) > Len("binary_sensor.") + Len("_battery_low")

\* sensor.X_battery of binary_sensor.X_battery_low.
LevelSensorOf(id) ==
  "sensor."
    \o SubSeq(id, Len("binary_sensor.") + 1, Len(id) - Len("_battery_low"))
    \o "_battery"

\* Positions (b, s) of a binary_sensor.X_battery_low and its sensor.X_battery,
\* both registered to the same device of the device registry.
DuplicatePairs ==
  {bs \in Positions \X Positions :
     /\ IsBatteryLowId(hass.states[bs[1]].entity_id)
     /\ hass.states[bs[2]].entity_id = LevelSensorOf(hass.states[bs[1]].entity_id)
     /\ GetDeviceId(hass, hass.states[bs[1]].entity_id) # ""
     /\ GetDeviceId(hass, hass.states[bs[1]].entity_id)
          = GetDeviceId(hass, hass.states[bs[2]].entity_id)
     /\ GetDeviceId(hass, hass.states[bs[1]].entity_id) \in DOMAIN hass.devices}

RecordsOfDevice(deviceId) == {r \in Records(result.allDevices) : r.deviceId = deviceId}

\* Another battery entity of the device of position b survives detection and
\* filtering and is numeric or visited before b.
Outranked(b) ==
  \E p \in Positions :
    /\ p # b
    /\ Survives(hass.states[p])
    /\ DeviceOf(hass.states[p]) = DeviceOf(hass.states[b])
    /\ \/ p < b
       \/ BatteryEvaluateState(hass.states[p], config).numericValue # <<>>

(***************************************************************************)
(* C3 as stated: with binary_sensor.x_battery_low and sensor.x_battery     *)
(* both present and registered to device x, there is exactly one record   *)
(* for x, its entity is the binary sensor, and sensor.x_battery represents *)
(* no record.  Read in the claim's favour: the binary sensor is one that   *)
(* passes detect and is not hidden.                                        *)
(***************************************************************************)
C3_AsStated ==
  (Collected /\ EntityType(config) = "battery") =>
    \A bs \in DuplicatePairs :
      LET b == hass.states[bs[1]]
          x == GetDeviceId(hass, b.entity_id)
      IN (BatteryDetect(b.entity_id, Attributes(b)[1]) /\ ~IsEntityHidden(hass, b.entity_id))
         => /\ Cardinality(RecordsOfDevice(x)) = 1
            /\ \A r \in RecordsOfDevice(x) : r.entityId = b.entity_id
            /\ \A r \in Records(result.allDevices) :
                 r.entityId # hass.states[bs[2]].entity_id

(***************************************************************************)
(* C3 as amended: sensor.x_battery represents no record and device x has   *)
(* at most one record; that record exists and is the binary sensor's when  *)
(* the binary sensor passes detect, is not hidden, and no other surviving  *)
(* battery entity of device x is numeric or visited before it.             *)
(***************************************************************************)
C3_Deduplication ==
  (Collected /\ EntityType(config) = "battery") =>
    \A bs \in DuplicatePairs :
      LET b == hass.states[bs[1]]
          x == GetDeviceId(hass, b.entity_id)
      IN /\ \A r \in Records(result.allDevices) :
              r.entityId # hass.states[bs[2]].entity_id
         /\ Cardinality(RecordsOfDevice(x)) <= 1
         /\ (/\ BatteryDetect(b.entity_id, Attributes(b)[1])
             /\ ~IsEntityHidden(hass, b.entity_id)
             /\ ~Outranked(bs[1]))
            => /\ Cardinality(RecordsOfDevice(x)) = 1
               /\ \A r \in RecordsOfDevice(x) : r.entityId = b.entity_id

\* The numeric sensor.x_battery comes first and the binary sensor still
\* represents the device.
C3_Witness ==
  /\ Collected
  /\ EntityType(config) = "battery"
  /\ \E bs \in DuplicatePairs :
       /\ bs[2] < bs[1]
       /\ ParseFloat(hass.states[bs[2]].state) # NaN
       /\ \E r \in Records(result.allDevices) :
            r.entityId = hass.states[bs[1]].entity_id

(***************************************************************************)
(* C4: when exactly two surviving battery entities resolve to one device,  *)
(* one with a numeric and one with a non-numeric reading, the device's     *)
(* record has the numeric entity's numericValue, whichever comes first.    *)
(***************************************************************************)
\* The positions of the entities that survive and resolve to a device.
Survivors == {p \in Positions : Survives(hass.states[p]) /\ DeviceOf(hass.states[p]) # ""}

\* Positions n (numeric) and s (symbolic): the only two survivors of a device.
NumericSymbolicPairs ==
  LET survivors == Survivors
  IN {ns \in survivors \X survivors :
        /\ ns[1] # ns[2]
        /\ DeviceOf(hass.states[ns[1]]) = DeviceOf(hass.states[ns[2]])
        /\ \A p \in survivors \ {ns[1], ns[2]} :
             DeviceOf(hass.states[p]) # DeviceOf(hass.states[ns[1]])
        /\ ~IsBatteryLowId(hass.states[ns[1]].entity_id)
        /\ ParseFloat(hass.states[ns[1]].state) # NaN
        /\ \/ IsBatteryLowId(hass.states[ns[2]].entity_id)
           \/ ParseFloat(hass.states[ns[2]].state) = NaN}

C4_NumericPreference ==
  (Collected /\ EntityType(config) = "battery") =>
    \A ns \in NumericSymbolicPairs :
      LET mine == RecordsOfDevice(DeviceOf(hass.states[ns[1]]))
      IN /\ Cardinality(mine) = 1
         /\ \A r \in mine :
              /\ r.stateInfo.numericValue = ParseFloat(hass.states[ns[1]].state)
              /\ r.entityId = hass.states[ns[1]].entity_id

\* The symbolic entity is visited first and its record is replaced.
C4_Witness ==
  /\ Collected
  /\ EntityType(config) = "battery"
  /\ \E ns \in NumericSymbolicPairs :
       /\ ns[2] < ns[1]
       /\ hass.states[ns[1]].state = "45"
       /\ hass.states[ns[2]].state = "low"
       /\ \E r \in Records(result.allDevices) : r.stateInfo.numericValue = <<Num(45)>>

\* The entity of the snapshot with the given id.
EntityAt(entityId) ==
  hass.states[CHOOSE p \in Positions : hass.states[p].entity_id = entityId]

(***************************************************************************)
(* C5: for a battery record with a numeric level v, isAlert is v < t with  *)
(* t the configured battery_threshold, 0 included, and 20 only when no     *)
(* threshold is configured.                                                *)
(***************************************************************************)
C5_ThresholdAsConfigured ==
  EntityType(config) = "battery" =>
    \A r \in Records(devices) :
      r.stateInfo.numericValue # <<>> =>
        LET v == r.stateInfo.numericValue[1]
            t == IF config.battery_threshold = <<>> THEN Num(20)
                 ELSE config.battery_threshold[1]
        IN r.stateInfo.isAlert = (v < t)

(***************************************************************************)
(* C6: an entity whose id ends with _state, _charging, _charger, _power or *)
(* _health is rejected by the battery strategy's detect whatever its       *)
(* device_class is, and represents no battery record.                      *)
(***************************************************************************)
HasExcludedSuffix(id) ==
  \/ EndsWith(id, "_state")
  \/ EndsWith(id, "_charging")
  \/ EndsWith(id, "_charger")
  \/ EndsWith(id, "_power")
  \/ EndsWith(id, "_health")

C6_ExcludedSuffixes ==
  EntityType(config) = "battery" =>
    /\ \A p \in 1..(idx - 1) :
         HasExcludedSuffix(hass.states[p].entity_id) =>
           ~Detect("battery", hass.states[p].entity_id, Attributes(hass.states[p])[1])
    /\ \A r \in Records(devices) \cup Records(result.allDevices) :
         ~HasExcludedSuffix(r.entityId)

\* A visible sensor.x_battery_charging with device_class battery on a named
\* device has been visited.
C6_Witness ==
  /\ Collected
  /\ EntityType(config) = "battery"
  /\ \E p \in Positions :
       /\ HasExcludedSuffix(hass.states[p].entity_id)
       /\ Attributes(hass.states[p])[1].device_class = "battery"
       /\ ~IsEntityHidden(hass, hass.states[p].entity_id)
       /\ GetDeviceName(hass, GetDeviceId(hass, hass.states[p].entity_id)) # ""
  /\ result.totalDevices >= 1

(***************************************************************************)
(* C7: a record of a lock. entity is an alert exactly when its state is    *)
(* on, open, opening, unlocked, unlocking or jammed; a record of any other *)
(* contact entity is an alert exactly when its state is on.                *)
(***************************************************************************)
C7_ContactAlert ==
  EntityType(config) = "contact" =>
    \A r \in Records(devices) :
      LET state == EntityAt(r.entityId).state
      IN r.stateInfo.isAlert =
           IF StartsWith(r.entityId, "lock.")
           THEN state \in {"on", "open", "opening", "unlocked", "unlocking", "jammed"}
           ELSE state = "on"

\* A jammed lock is an alert and a binary sensor reading "open" is not.
C7_Witness ==
  /\ Collected
  /\ EntityType(config) = "contact"
  /\ \E r \in Records(result.alertDevices) :
       StartsWith(r.entityId, "lock.") /\ EntityAt(r.entityId).state = "jammed"
  /\ \E r \in Records(result.normalDevices) :
       StartsWith(r.entityId, "binary_sensor.") /\ EntityAt(r.entityId).state = "open"

(***************************************************************************)
(* C8: no record is represented by a hidden entity, and a hidden entity    *)
(* has no influence on the records of the visible ones: the result is the  *)
(* result for the snapshot without its hidden entities.                    *)
(***************************************************************************)
WithoutHidden(h) ==
  [h EXCEPT !.states = SelectSeq(h.states, LAMBDA e : ~IsEntityHidden(h, e.entity_id))]

C8_HiddenHasNoEffect ==
  Collected =>
    /\ \A r \in Records(result.allDevices) \cup Records(result.unavailableDevices)
               \cup Records(result.alertDevices) \cup Records(result.normalDevices) :
         ~IsEntityHidden(hass, r.entityId)
    /\ result = CollectDevices(WithoutHidden(hass), config, options)

(***************************************************************************)
(* C9 as stated: an entity whose device_id names a device that is missing  *)
(* from the device registry, or a device with neither name_by_user nor     *)
(* name, has no record, and no record carries the device id in place of a  *)
(* device name.                                                            *)
(***************************************************************************)
HasDeviceId(e) == GetDeviceId(hass, e.entity_id) # ""

DeviceMissing(e) == GetDeviceId(hass, e.entity_id) \notin DOMAIN hass.devices

DeviceUnnamed(e) ==
  /\ ~DeviceMissing(e)
  /\ hass.devices[GetDeviceId(hass, e.entity_id)].name_by_user = ""
  /\ hass.devices[GetDeviceId(hass, e.entity_id)].name = ""

C9_AsStated ==
  Collected =>
    \A r \in Records(result.allDevices) :
      HasDeviceId(EntityAt(r.entityId)) =>
        /\ ~DeviceMissing(EntityAt(r.entityId))
        /\ ~DeviceUnnamed(EntityAt(r.entityId))
        /\ r.deviceName # r.deviceId

(***************************************************************************)
(* C9 as amended: an entity whose device_id names a device missing from    *)
(* the device registry has no record; the record of an entity with a       *)
(* registered device carries name_by_user, else name, else the device id   *)
(* itself as deviceName.                                                   *)
(***************************************************************************)
C9_DeviceNameFallback ==
  Collected =>
    \A r \in Records(result.allDevices) :
      LET e == EntityAt(r.entityId)
          d == GetDeviceId(hass, e.entity_id)
      IN HasDeviceId(e) =>
           /\ ~DeviceMissing(e)
           /\ r.deviceId = d
           /\ r.deviceName =
                IF hass.devices[d].name_by_user # "" THEN hass.devices[d].name_by_user
                ELSE IF hass.devices[d].name # "" THEN hass.devices[d].name
                ELSE d

\* A device without names is shown under its id while an entity of a missing
\* device, visible and detected, has no record.
C9_Witness ==
  /\ Collected
  /\ \E r \in Records(result.allDevices) :
       DeviceUnnamed(EntityAt(r.entityId)) /\ r.deviceName = r.deviceId
  /\ \E p \in Positions :
       /\ Survives(hass.states[p])
       /\ HasDeviceId(hass.states[p])
       /\ DeviceMissing(hass.states[p])

(***************************************************************************)
(* C10: a surviving entity without a registry device_id has a record if    *)
(* and only if its id starts with light., contact. or sensor.; the record  *)
(* has deviceId = entityId and deviceName = friendly_name, or the entity   *)
(* id when there is no friendly name; the others are not counted.          *)
(***************************************************************************)
DeviceLessSurvivors ==
  {p \in Positions : Survives(hass.states[p]) /\ ~HasDeviceId(hass.states[p])}

C10_DeviceLessEntities ==
  Collected =>
    /\ \A p \in DeviceLessSurvivors :
         LET e == hass.states[p]
             mine == {r \in Records(result.allDevices) : r.entityId = e.entity_id}
         IN /\ (mine # {}) <=>
                 \/ StartsWith(e.entity_id, "light.")
                 \/ StartsWith(e.entity_id, "contact.")
                 \/ StartsWith(e.entity_id, "sensor.")
            /\ \A r \in mine :
                 /\ r.deviceId = e.entity_id
                 /\ r.deviceName = IF Attributes(e)[1].friendly_name # ""
                                   THEN Attributes(e)[1].friendly_name ELSE e.entity_id
    /\ result.totalDevices
         = Cardinality({p \in Positions :
                          \E r \in Records(result.allDevices) :
                            r.entityId = hass.states[p].entity_id})

\* A device-less sensor is its own device and a device-less binary sensor is
\* dropped.
C10_Witness ==
  /\ Collected
  /\ \E p \in DeviceLessSurvivors :
       /\ StartsWith(hass.states[p].entity_id, "sensor.")
       /\ \E r \in Records(result.allDevices) : r.deviceId = hass.states[p].entity_id
  /\ \E p \in DeviceLessSurvivors :
       /\ StartsWith(hass.states[p].entity_id, "binary_sensor.")
       /\ \A r \in Records(result.allDevices) : r.entityId # hass.states[p].entity_id

IsUnavailableRecord(r) == EntityAt(r.entityId).state = "unavailable"

\* Some record of the result is in its alert and in its unavailable bucket.
Overlaps(res) == Records(res.alertDevices) \cap Records(res.unavailableDevices) # {}

C13_AsStated ==
  /\ Collected =>
       result.unavailableDevices = SelectSeq(result.allDevices, IsUnavailableRecord)
  /\ \E cfg \in Configs :
       \E snap \in Snapshots(EntityType(cfg)) :
         Overlaps(CollectDevices(MakeHass(snap), cfg, options))

(***************************************************************************)
(* C13 as amended: unavailableDevices is exactly the records whose entity  *)
(* state is "unavailable", in the order of allDevices; every one of them   *)
(* is also in normalDevices and none is in alertDevices, since no strategy *)
(* takes the state "unavailable" for an alert.                             *)
(***************************************************************************)
C13_UnavailableOverlay ==
  Collected =>
    /\ result.unavailableDevices = SelectSeq(result.allDevices, IsUnavailableRecord)
    /\ \A r \in Records(result.unavailableDevices) :
         /\ r \in Records(result.normalDevices)
         /\ r \notin Records(result.alertDevices)
         /\ ~r.stateInfo.isAlert

\* An unavailable lock or low-battery sensor next to an alert of the same call.
C13_Witness ==
  /\ Collected
  /\ result.alertDevices # <<>>
  /\ \E r \in Records(result.unavailableDevices) :
       \/ StartsWith(r.entityId, "lock.")
       \/ IsBatteryLowId(r.entityId)

(***************************************************************************)
(* The properties of the card and of the badge.                            *)
(***************************************************************************)
\* setConfig has returned without throwing.
Configured == pc \notin {"setConfig", "rejected"}

\* C12 as stated: setConfig throws for a missing config and for every
\* entity_type that is not battery, contact or light, and a config it has
\* stored has one of these three as its entity_type (an absent or empty one is
\* stored as battery), so that no render fails on a strategy that does not
\* exist.
C12_StoredTypeIsValidated ==
  /\ pc = "rejected" =>
       \/ userConfig = <<>>
       \/ userConfig[1].entity_type \notin {<<>>, <<"">>, <<"battery">>, <<"contact">>, <<"light">>}
  /\ Configured => config.entity_type \in ENTITY_TYPES
  /\ pc # "thrown"

\* The card has computed its alert and normal lists from a snapshot.
CardFolded ==
  element = "card" /\ hass.defined /\ pc \in {"group", "sort", "renderCard", "rendered"}

\* The entity ids of a list of records.
EntityIds(s) == {s[i].entityId : i \in 1..Len(s)}

\* The records of a list whose entity is unavailable, in the order of the list.
UnavailableOf(s) == SelectSeq(s, IsUnavailableRecord)

\* The records of a list whose entity is not unavailable.
AvailableOf(s) == SelectSeq(s, LAMBDA r : ~IsUnavailableRecord(r))

(***************************************************************************)
(* C14: with show_unavailable set the alert list of the card is the alert  *)
(* records followed by the unavailable records that are not among them, no *)
(* entityId occurs twice in it, and the normal list is the normal records  *)
(* without the unavailable ones, so that every aggregated record occurs    *)
(* exactly once across the two lists and the alert count is at most        *)
(* totalDevices; with show_unavailable unset the two lists are the         *)
(* alertDevices and normalDevices of collectDevices.                       *)
(***************************************************************************)
C14_FoldingUnavailable ==
  CardFolded =>
    IF config.show_unavailable
    THEN /\ SubSeq(alerts, 1, Len(result.alertDevices)) = result.alertDevices
         /\ SubSeq(alerts, Len(result.alertDevices) + 1, Len(alerts))
              = SelectSeq(result.unavailableDevices,
                          LAMBDA r : r.entityId \notin EntityIds(result.alertDevices))
         /\ \A i, j \in 1..Len(alerts) : alerts[i].entityId = alerts[j].entityId => i = j
         /\ normals = AvailableOf(result.normalDevices)
         /\ Records(alerts \o normals) = Records(result.allDevices)
         /\ \A r \in Records(result.allDevices) : Occurrences(alerts \o normals, r) = 1
         /\ Len(alerts) <= result.totalDevices
    ELSE /\ alerts = result.alertDevices
         /\ normals = result.normalDevices

\* A card that shows unavailable devices has moved one from the normal records
\* to its alerts, next to an alert and a normal record.
C14_Witness ==
  /\ CardFolded
  /\ config.show_unavailable
  /\ result.alertDevices # <<>>
  /\ UnavailableOf(result.normalDevices) # <<>>
  /\ Len(alerts) > Len(result.alertDevices)
  /\ normals # <<>>
  /\ Len(normals) < Len(result.normalDevices)

\* The element has rendered a snapshot of the host.
Rendered(elem) == element = elem /\ hass.defined /\ pc = "rendered"

\* The devices of a list of the card, without the group header markers.
DevicesOf(list) == SelectSeq(list, LAMBDA item : ~IsGroupHeader(item))

\* The group header markers of a list of the card.
HeadersOf(list) == SelectSeq(list, IsGroupHeader)

(***************************************************************************)
(* C15: a card that has rendered shows in its title the alert count and    *)
(* the total that the badge shows for the same hass and the same           *)
(* entity_type, battery_threshold and show_unavailable, whatever the       *)
(* grouping and the sorting of the card (the header markers are not        *)
(* counted), so that with visibility alert the card is hidden exactly when *)
(* the badge is.                                                           *)
(***************************************************************************)
C15_CardAndBadgeAgree ==
  Rendered("card") =>
    LET res == CollectDevices(hass, config, [includeArea |-> FALSE])
        badgeAlerts == FoldAlerts(res, config)
        badge == BadgeContent(config, badgeAlerts, res.totalDevices,
                              IsInEditMode(hass, location))
    IN /\ Len(DevicesOf(sorted.alertDevices)) = Len(badgeAlerts)
       /\ result.totalDevices = res.totalDevices
       /\ shadowRoot = badge
       /\ shadowRoot = "" <=> badge = ""

\* A card grouped by area has rendered a title over alerts under two headers.
C15_Witness ==
  /\ Rendered("card")
  /\ config.group_by = "area"
  /\ Len(HeadersOf(sorted.alertDevices)) >= 2
  /\ shadowRoot # ""

\* The dashboard is in edit mode: ?edit=1 in the URL or hass.ui.editMode.
EditMode == location.edit = "1" \/ hass.ui.editMode

(***************************************************************************)
(* C16: a card or a badge that has rendered a snapshot is empty if and     *)
(* only if its visibility setting is alert, its alert list after the       *)
(* folding of the unavailable devices is empty and the dashboard is not in *)
(* edit mode; in edit mode, and with visibility always or unset, it shows. *)
(***************************************************************************)
C16_VisibilityPolicy ==
  \A elem \in {"card", "badge"} :
    Rendered(elem) =>
      /\ shadowRoot = "" <=> (config.visibility = "alert" /\ alerts = <<>> /\ ~EditMode)
      /\ EditMode => shadowRoot # ""
      /\ config.visibility \in {"", "always"} => shadowRoot # ""

\* A badge set to show on alert only has no alert and shows all the same,
\* because the dashboard is in edit mode.
C16_Witness ==
  /\ Rendered("badge")
  /\ config.visibility = "alert"
  /\ alerts = <<>>
  /\ EditMode
  /\ shadowRoot # ""

\* The card has grouped its two lists.
CardGrouped ==
  element = "card" /\ hass.defined /\ pc \in {"sort", "renderCard", "rendered"}

\* The positions of the header markers of a list.
HeaderPositions(list) == {i \in 1..Len(list) : IsGroupHeader(list[i])}

\* The position after the run of devices that starts after position i.
RunLimit(list, i) ==
  IF \E j \in HeaderPositions(list) : j > i
  THEN CHOOSE j \in HeaderPositions(list) :
         j > i /\ \A k \in HeaderPositions(list) : k > i => j <= k
  ELSE Len(list) + 1

\* The devices between the header at position i and the next header.
RunAfter(list, i) == SubSeq(list, i + 1, RunLimit(list, i) - 1)

\* The group name of a device when the card groups by area.
AreaGroupName(device) == IF device.areaName = "" THEN "No Area" ELSE device.areaName

\* output is input cut into the groups that NameOfGroup gives: a header for
\* each group name, the names strictly ascending by code units, each header
\* followed by the devices of its group in the order they have in input, no
\* device before the first header and no header without a device.
IsGrouping(NameOfGroup(_), input, output) ==
  LET names == {NameOfGroup(input[i]) : i \in 1..Len(input)}
      headers == HeadersOf(output)
  IN /\ {headers[i].groupName : i \in 1..Len(headers)} = names
     /\ \A i, j \in 1..Len(headers) :
          i < j => CodeUnitCompare(headers[i].groupName, headers[j].groupName) < 0
     /\ output # <<>> => IsGroupHeader(output[1])
     /\ \A i \in HeaderPositions(output) :
          /\ RunAfter(output, i) # <<>>
          /\ RunAfter(output, i)
               = SelectSeq(input, LAMBDA d : NameOfGroup(d) = output[i].groupName)
     /\ Len(DevicesOf(output)) = Len(input)
     /\ \A d \in Records(input) : Occurrences(output, d) = Occurrences(input, d)

FloorGroupName(device) ==
  IF device.areaId = "" \/ device.areaId \notin DOMAIN hass.areas THEN "No Floor"
  ELSE LET floorId == hass.areas[device.areaId].floor_id
       IN IF floorId = "" \/ floorId \notin DOMAIN hass.floors THEN "No Floor"
          ELSE IF hass.floors[floorId].name = "" THEN "No Floor"
          ELSE hass.floors[floorId].name

\* C18 as stated: for group_by floor the group of a device is the floor
\* reached through its areaId, and "No Floor" whenever a link is missing (no
\* area, area not in the registry, no floor_id, floor not in the registry or
\* without name); no group is named "null".
C18_FloorOrNoFloor ==
  (CardGrouped /\ config.group_by = "floor") =>
    /\ IsGrouping(FloorGroupName, alerts, grouped.alertDevices)
    /\ IsGrouping(FloorGroupName, normals, grouped.normalDevices)
    /\ \A list \in {grouped.alertDevices, grouped.normalDevices} :
         \A i \in HeaderPositions(list) : list[i].groupName # "null"

\* The card has sorted its two lists.
CardSorted ==
  element = "card" /\ hass.defined /\ pc \in {"renderCard", "rendered", "thrown"}

\* Two lists hold the same items the same number of times.
IsPermutation(s, t) ==
  /\ Len(s) = Len(t)
  /\ \A x \in Records(s) \cup Records(t) : Occurrences(s, x) = Occurrences(t, x)

\* output has the headers of input at their positions and, between them, the
\* devices of input in some order.
KeepsGroups(input, output) ==
  /\ Len(output) = Len(input)
  /\ \A i \in 1..Len(input) :
       IF IsGroupHeader(input[i]) THEN output[i] = input[i]
       ELSE ~IsGroupHeader(output[i])
  /\ \A i \in HeaderPositions(input) \cup {0} :
       IsPermutation(RunAfter(input, i), RunAfter(output, i))

(***************************************************************************)
(* C19: whatever sort_by is, _sortDevices returns a list as long as the    *)
(* grouped list it is given, with every header marker at the index it had  *)
(* and every run of devices between two headers a permutation of the same  *)
(* run of the input: no device changes its group, is lost or is doubled.   *)
(***************************************************************************)
C19_SortingKeepsGroups ==
  CardSorted =>
    /\ KeepsGroups(grouped.alertDevices, sorted.alertDevices)
    /\ KeepsGroups(grouped.normalDevices, sorted.normalDevices)

\* The sorting has changed the order of the devices of the last of two groups.
C19_Witness ==
  /\ CardSorted
  /\ Len(HeadersOf(grouped.alertDevices)) = 2
  /\ \E i \in HeaderPositions(grouped.alertDevices) :
       /\ i > 1
       /\ RunAfter(sorted.alertDevices, i) # RunAfter(grouped.alertDevices, i)

\* The position of an item in a list that holds it once.
IndexIn(list, x) == CHOOSE i \in 1..Len(list) : list[i] = x

\* The devices that share a group of output are in the order they have in the
\* sorting of input as a whole.
RefinesUngrouped(input, output) ==
  LET flat == SortDevices(engine, config, input)
  IN \A i \in HeaderPositions(output) :
       \A p, q \in (i + 1)..(RunLimit(output, i) - 1) :
         p < q => IndexIn(flat, output[p]) < IndexIn(flat, output[q])

\* The group names of a list are in ascending order.
GroupsAscending(list) ==
  \A i, j \in HeaderPositions(list) :
    i < j => CodeUnitCompare(list[i].groupName, list[j].groupName) < 0

\* C20 as stated: for every sort_by, two devices of the same group are in
\* sort(group(list)) in the order they have in sort(list) without grouping,
\* and the groups are in alphabetical order whatever sort_by is.
C20_GroupedRefinesUngrouped ==
  (CardSorted /\ config.group_by \in {"area", "floor"}) =>
    /\ RefinesUngrouped(alerts, sorted.alertDevices)
    /\ RefinesUngrouped(normals, sorted.normalDevices)
    /\ GroupsAscending(sorted.alertDevices)
    /\ GroupsAscending(sorted.normalDevices)

\* The name that the sorting of the card compares.
SortName(device) == NameOf(config.name_source = "entity", device)

\* In a run of devices the numeric levels ascend, and the devices without
\* numeric level are in the order of their names.
LowestFirst(run) ==
  \A p, q \in 1..Len(run) :
    p < q =>
      /\ (run[p].stateInfo.numericValue # <<>> /\ run[q].stateInfo.numericValue # <<>>)
           => run[p].stateInfo.numericValue[1] <= run[q].stateInfo.numericValue[1]
      /\ (run[p].stateInfo.numericValue = <<>> /\ run[q].stateInfo.numericValue = <<>>)
           => LocaleCompare(SortName(run[p]), SortName(run[q])) <= 0

\* C21 as stated: after _sortDevices with sort_by state, in every run of
\* devices two records with a numeric value are in ascending order of it, also
\* when the run holds records without numeric value, and the records without
\* numeric value are in the order of the configured name.
C21_LowestBatteryFirst ==
  (CardSorted /\ config.sort_by = "state") =>
    \A list \in {sorted.alertDevices, sorted.normalDevices} :
      \A i \in HeaderPositions(list) \cup {0} : LowestFirst(RunAfter(list, i))

\* The card has rendered a device list under a collapse limit.
Collapsing ==
  /\ Rendered("card")
  /\ shadowRoot # ""
  /\ config.collapse # <<>>
  /\ config.collapse[1] > 0
  /\ ~(sorted.alertDevices = <<>> /\ config.filter # "all")

\* The devices the card is to show, without the header markers.
ShownDevices ==
  DevicesOf(IF config.filter = "all" THEN sorted.alertDevices \o sorted.normalDevices
            ELSE sorted.alertDevices)

\* C22 as stated: with collapse = N, more than N devices to show and the card
\* not expanded, the card displays the first N devices and the button reports
\* how many devices are not displayed, the header markers counting neither
\* in N nor in that number; an expanded card displays every device, and the
\* counts of the title are those of the lists, whatever collapse is.
C22_CollapseCountsDevices ==
  Collapsing =>
    LET N == config.collapse[1]
    IN /\ (Len(ShownDevices) > N /\ ~expanded) =>
            /\ DevicesOf(display.devices) = SubSeq(ShownDevices, 1, N)
            /\ display.button
                 = "Show " \o NatToString(Len(ShownDevices) - N) \o " more"
       /\ (Len(ShownDevices) <= N \/ expanded) =>
            DevicesOf(display.devices) = ShownDevices
       /\ shadowRoot = TitleText(config.title, Len(DevicesOf(sorted.alertDevices)),
                                 result.totalDevices)

(***************************************************************************)
(* C23: a call of collectDevices returns what every earlier call with the  *)
(* same snapshot, config and options returned, order included, whatever    *)
(* calls were made in between; and while a call runs it changes neither    *)
(* the snapshot nor the config.                                            *)
(***************************************************************************)
C23_Idempotent ==
  /\ [](pc = "done" =>
          \A n \in 1..Len(history) :
            (history[n].hass = hass /\ history[n].config = config
               /\ history[n].options = options)
              => history[n].result = result)
  /\ [][(pc = "call" \/ pc = "loop") => (hass' = hass /\ config' = config)]_vars

\* A call has returned records for arguments it was given before, after a call
\* with other arguments that returned other records.
C23_Witness ==
  /\ pc = "done"
  /\ Len(history) = 2
  /\ history[1].hass = hass /\ history[1].config = config
  /\ history[2].hass # hass
  /\ result.allDevices # <<>>
  /\ history[2].result.allDevices # <<>>
  /\ history[2].result # result

\* collectDevices has returned for the host with one phone and threshold 20.
PhoneCollected ==
  pc = "done" /\ hass = PhoneHass /\ config.battery_threshold = <<Num(20)>>

\* The state of a battery at a whole level.
LevelState(level) ==
  [value |-> NumValue(Num(level)), numericValue |-> <<Num(level)>>, isUnavailable |-> FALSE]

\* Red below 10, orange below 20, else blue.
ColorBands ==
  \A level \in 0..100 :
    BatteryGetColor(LevelState(level))
      = IF level < 10 THEN "#ff0000" ELSE IF level < 20 THEN "#ffa500" ELSE "#44739e"

\* The one record of the phone: an alert shown as "15%" in orange.
PhoneRecord ==
  /\ Len(result.allDevices) = 1
  /\ result.alertDevices = result.allDevices
  /\ result.normalDevices = <<>>
  /\ result.allDevices[1].entityId = "sensor.phone_battery"
  /\ result.allDevices[1].stateInfo.displayValue = "15%"
  /\ BatteryGetColor(result.allDevices[1].stateInfo) = "#ffa500"

\* C24 as stated: for the phone at 15 with threshold 20 collectDevices returns
\* one record, an alert with displayValue "15%" and the colour orange (red
\* below 10, orange below 20, else blue), and getIcon gives the icon of the band
\* that holds the levels 10 to 14.
C24_AsStated ==
  PhoneCollected =>
    /\ PhoneRecord
    /\ ColorBands
    /\ \A level \in 10..14 :
         BatteryGetIcon(result.allDevices[1].stateInfo) = BatteryGetIcon(LevelState(level))

(***************************************************************************)
(* C24: for the phone at 15 with threshold 20 collectDevices returns one   *)
(* record, an alert with displayValue "15%" and the colour orange (red     *)
(* below 10, orange below 20, else blue); getIcon gives mdi:battery-20,    *)
(* the icon of the levels 15 to 24, and not mdi:battery-10, the icon of    *)
(* the levels 5 to 14.                                                     *)
(***************************************************************************)
C24_PhoneScenario ==
  PhoneCollected =>
    /\ PhoneRecord
    /\ ColorBands
    /\ BatteryGetIcon(result.allDevices[1].stateInfo) = "mdi:battery-20"
    /\ \A level \in 0..100 :
         /\ BatteryGetIcon(LevelState(level)) = "mdi:battery-20" <=> level \in 15..24
         /\ BatteryGetIcon(LevelState(level)) = "mdi:battery-10" <=> level \in 5..14

\* The call on the host with the phone has returned its record.
C24_Witness == PhoneCollected /\ result.alertDevices # <<>>

\* The host listing its entities in another order.
Reordered(h, p) == [h EXCEPT !.states = [i \in 1..Len(h.states) |-> h.states[p[i]]]]

\* What a record says of its device: key, representing entity, state, alert.
Summary(r) ==
  [storageKey |-> r.storageKey, entityId |-> r.entityId, stateInfo |-> r.stateInfo]

Summaries(list) == {Summary(list[i]) : i \in 1..Len(list)}

\* C25 as stated: under every order in which the host lists its entities
\* collectDevices returns the same keys, each with the same representing
\* entity, stateInfo and isAlert, and so the same alert count and total, also
\* when two battery entities with different readings are of one device.
C25_OrderIndependent ==
  Collected =>
    \A p \in Permutations(1..Len(hass.states)) :
      LET other == CollectDevices(Reordered(hass, p), config, options)
      IN /\ Summaries(other.allDevices) = Summaries(result.allDevices)
         /\ Len(other.alertDevices) = Len(result.alertDevices)
         /\ other.totalDevices = result.totalDevices

\* The comparator of sort_by state on two records of the card.
StateCompare(a, b) == Compare("state", config.name_source = "entity", a, b)

\* C26 as stated: on the records of a card, numeric and not, the comparator
\* of sort_by state is transitive and antisymmetric up to ties, so that the
\* sorted order does not depend on the sort algorithm.
C26_ConsistentComparator ==
  CardSorted =>
    LET records == Records(alerts) \cup Records(normals)
    IN /\ \A a, b, c \in records :
            (StateCompare(a, b) <= 0 /\ StateCompare(b, c) <= 0) => StateCompare(a, c) <= 0
       /\ \A a, b \in records :
            /\ StateCompare(a, b) < 0 <=> StateCompare(b, a) > 0
            /\ StateCompare(a, b) = 0 <=> StateCompare(b, a) = 0
       /\ \A list \in {alerts, normals} :
            ApplySorting("v8", list, "state", config.name_source = "entity")
              = ApplySorting("spidermonkey", list, "state", config.name_source = "entity")

\* The editor has no timer pending.
EditorQuiet == debounceTimeout = <<>>

\* C27 as stated: after any interleaving of debounced text edits, immediate
\* select edits and setConfig calls of the host, once no timer is pending the
\* last config-changed event carries the last value of every field the user
\* has edited.
C27_NoEditLost ==
  (EditorQuiet /\ edits > 0) =>
    /\ lastEvent # <<>>
    /\ \A field \in EditorFields :
         edited[field] # <<>> => lastEvent[1][field] = edited[field][1]

\* Every promise of the page has settled and every microtask has run.
Settled ==
  /\ microtasks = <<>>
  /\ \A l \in Languages : loadPromises[l] = "none" /\ waiting[l] = 0

\* C28 as stated: once every pending promise has settled, what the card shows
\* was computed from the most recent hass snapshot (its language included),
\* the most recent config and the current expanded flag.
C28_NoStaleRender ==
  (Settled /\ cardHass # <<>>) =>
    cardContent = <<[hass |-> cardHass[1], config |-> cardConfig,
                     expanded |-> cardExpanded,
                     language |-> ShortLang(cardHass[1].language)]>>

\* The languages of the microtasks that continue setLanguage.
ResolvedFor == {microtasks[k].language : k \in {j \in 1..Len(microtasks) : microtasks[j].step = "setLanguage"}}

\* C29: for every fetch outcome and every interleaving of loadTranslations
\* calls, no load promise rejects, no language has two fetches in flight, the
\* translations of a language are defined when a caller continues after its
\* load promise and stay defined once the promise has settled, only a pending
\* promise has callers waiting, and every render that waits runs: once
\* everything has settled the card shows its content, and everything settles.
C29_LoadingSettles ==
  /\ [](/\ (\A l \in Languages :
              /\ settlement[l] # "rejected"
              /\ inFlight[l] <= 1
              /\ settlement[l] = "resolved" => translations[l] # <<>>
              /\ waiting[l] > 0 => loadPromises[l] # "none")
          /\ (\A resumed \in ResolvedFor : translations[resumed] # <<>>)
          /\ (Settled /\ cardHass # <<>>) => cardContent # <<>>)
  /\ (~Settled ~> Settled)

\* The fetch of the Spanish file and the fetch of English have both failed,
\* two renders have waited on the Spanish load promise, and the card shows
\* content rendered in Spanish with the empty structure as its table.
C29_Witness ==
  /\ Settled
  /\ translations["en"] = <<EmptyStructure>>
  /\ translations["es"] = <<EmptyStructure>>
  /\ updates >= 2
  /\ cardContent # <<>>
  /\ cardContent[1].language = "es"

\* The number of calls of _handleAction from one listener for one press.
Runs(source, n) ==
  Cardinality({k \in 1..Len(handled) : handled[k].source = source /\ handled[k].press = n})

\* The action config a call of _handleAction was made with.
ConfigOf(call) ==
  IF call.source = "hold" THEN badgeConfig.hold_action ELSE badgeConfig.tap_action

\* C30 as stated: with a hold action and a tap action configured, a press
\* still held after 500 ms runs the hold action exactly once and its click
\* does not run the tap action; a press released, left or cancelled before
\* 500 ms never runs the hold action and its click runs the tap action exactly
\* once; and a call with an action of type none does nothing.
C30_HoldVersusTap ==
  /\ (HasHoldAction /\ HasTapAction) =>
       \A n \in 1..presses :
         IF n \in heldLong
           THEN Runs("hold", n) = 1 /\ Runs("tap", n) = 0
           ELSE /\ Runs("hold", n) = 0
                /\ n \in clicked => Runs("tap", n) = 1
  /\ \A k \in 1..Len(handled) :
       NormalizeAction(ConfigOf(handled[k])).action = "none" => handled[k].did = ""

====
